---- MODULE Spec2Model ----
(***************************************************************************)
(* Verification model of liquidity-sentinel: the alert lifecycle engine    *)
(* (monitoring/alertEngine.js), the LP monitor that feeds it               *)
(* (monitoring/lpMonitor.js) and the daily heartbeat delivery              *)
(* (monitoring/dailyHeartbeat.js).                                         *)
(*                                                                         *)
(* Numbers: fractions are kept exact.  Cutoff fractions are per-mille      *)
(* integers, buffer fractions are basis points, interest rates are tenths  *)
(* of a percentage point.  A JavaScript value that is either a finite      *)
(* Number or null / undefined / NaN is a sequence: <<n>> for the finite     *)
(* number n, <<>> otherwise (JSON.stringify writes null and NaN alike).     *)
(* A nullable string or object is held the same way.                        *)
(***************************************************************************)
EXTENDS Integers, Sequences, FiniteSets, TLC

VARIABLES
  env,          \* process.env values read at module load (lpMonitor.js:35-52)
  alert_state,  \* table alert_state: a set of rows
  alert_log,    \* table alert_log: rows in insertion order
  accepts_dm,   \* users.accepts_dm, per user id
  client,       \* alertEngine _client, set by setAlertEngineClient when the bot is ready
  now,          \* datetime('now'), in whole seconds
  pc,           \* where the in-flight processAlert call is suspended
  cur,          \* locals of the in-flight / most recent processAlert call
  alertDms,     \* history: alert DM deliveries started (client.users.fetch called),
                \* each marked when it failed with an error that is not "blocked"
  hb,           \* locals of the in-flight sendDailyHeartbeat run
  lockMarker,   \* locks/snapshot-refresh.lock: NULL, or the owner that wrote it
  lockFile,     \* the same marker file as concurrent processes see it, with its age
  lockProcs,    \* per process: where it is in acquireLock / releaseLock
  job,          \* startMonitoringJob: isRunning, the cycle in flight, pending timers
  contract_scan_cursors,  \* table contract_scan_cursors, per contract id
  search,       \* locals of the findContractCreationBlock call in flight
  retry,        \* locals of the withRetry call in flight
  lpConfig,     \* the load of monitoring/lpMonitor.js: process.env as it was read
  mw,           \* my-wallets UI: mwLocks, the clock, the interactions being handled
  tiering,      \* the latest classifyLpRangeTier call: its arguments and its result
  winScan,      \* locals of the windowed log scan in flight
  lpCycle       \* locals of the monitorLPs cycle in flight

\* the alert engine, the monitors and the heartbeat
engineVars == <<env, alert_state, alert_log, accepts_dm, client, now, pc, cur, alertDms,
                hb, lockMarker>>

\* state of the other subsystems, which the engine's operations never touch
sideVars == <<lockFile, lockProcs, job, contract_scan_cursors, search, retry, lpConfig, mw,
              tiering, winScan, lpCycle>>

\* what the operations of one subsystem leave alone
besidesLock == <<engineVars, job, contract_scan_cursors, search, retry, lpConfig, mw, tiering,
                 winScan, lpCycle>>
besidesJob == <<engineVars, lockFile, lockProcs, contract_scan_cursors, search, retry,
                lpConfig, mw, tiering, winScan, lpCycle>>
besidesScan == <<engineVars, lockFile, lockProcs, job, search, retry, lpConfig, mw, tiering,
                 winScan, lpCycle>>
besidesSearch == <<engineVars, lockFile, lockProcs, job, contract_scan_cursors, retry,
                   lpConfig, mw, tiering, winScan, lpCycle>>
besidesRetry == <<engineVars, lockFile, lockProcs, job, contract_scan_cursors, search,
                  lpConfig, mw, tiering, winScan, lpCycle>>
besidesConfig == <<alert_state, alert_log, accepts_dm, client, now, pc, cur, alertDms, hb,
                   lockMarker, lockFile, lockProcs, job, contract_scan_cursors, search, retry,
                   mw, tiering, winScan, lpCycle>>
besidesMw == <<engineVars, lockFile, lockProcs, job, contract_scan_cursors, search, retry,
               lpConfig, tiering, winScan, lpCycle>>
besidesTiering == <<engineVars, lockFile, lockProcs, job, contract_scan_cursors, search, retry,
                    lpConfig, mw, winScan, lpCycle>>
besidesWinScan == <<engineVars, lockFile, lockProcs, job, contract_scan_cursors, search, retry,
                    lpConfig, mw, tiering, lpCycle>>
besidesLpCycle == <<env, accepts_dm, client, now, hb, lockMarker, lockFile, lockProcs, job,
                    contract_scan_cursors, search, retry, lpConfig, mw, tiering, winScan>>

vars == <<engineVars, sideVars>>

NULL == <<>>                 \* null, undefined, NaN
Some(x) == <<x>>
isFinite(x) == Len(x) = 1    \* Number.isFinite
Val(x) == x[1]
UNDEFINED_ID == -1           \* an id column that is missing from the caller's data

-----------------------------------------------------------------------------
(* Bounds *)

MaxLog == 3     \* rows the alert_log table may hold
MaxTime == 1    \* seconds the clock may advance
MaxCalls == 5   \* runOnce calls of the monitoring job that are followed
MaxTimers == 2  \* jitter timers that may be pending at once
MaxBlock == 4   \* the highest block number a cursor is followed to
MaxLatest == 8  \* the highest chain head the creation-block search is run on
MaxMwTicks == 3 \* clock ticks the my-wallets UI is followed for
MaxScanEnd == 5 \* the highest block a windowed log scan ends at

-----------------------------------------------------------------------------
(* The monitored world: users and the positions the monitors evaluate *)

Users == {1, 2}

\* identity tuples <<user_id, wallet_id, contract_id, token_id>>
LoanKey == <<1, 1, 1, "7">>
LpKey == <<2, 2, 2, "7">>
BadLoanKey == <<1, 1, UNDEFINED_ID, "7">>
Keys == {LoanKey, LpKey}

discord_id == [u \in Users |-> IF u = 1 THEN "d1" ELSE "d2"]

-----------------------------------------------------------------------------
(* LP range tier classification (lpMonitor.js) *)

LP_TIER_ORDER == <<"LOW", "MEDIUM", "HIGH", "CRITICAL", "UNKNOWN">>

indexOf(seq, x) ==
  IF \E i \in 1..Len(seq) : seq[i] = x
  THEN (CHOOSE i \in 1..Len(seq) : seq[i] = x /\ \A j \in 1..(i - 1) : seq[j] # x) - 1
  ELSE -1

isLpTierAtLeast(tier, minTier) ==
  LET idx == indexOf(LP_TIER_ORDER, IF tier = "" THEN "UNKNOWN" ELSE tier)
      minIdx == indexOf(LP_TIER_ORDER, IF minTier = "" THEN "UNKNOWN" ELSE minTier)
  IN IF idx = -1 \/ minIdx = -1 THEN FALSE ELSE idx >= minIdx

Min(a, b) == IF a <= b THEN a ELSE b

\* fractions are pairs <<numerator, denominator>> with denominator > 0
\* variant: the cutoff itself is excluded
FracLeqPm_Strict(num, den, pm) == num * 1000 < pm * den

\* num / den <= pm / 1000
FracLeqPm(num, den, pm) == num * 1000 <= pm * den

\* String(rangeStatus).toUpperCase().replace(/\s+/g, "_")
normalizeStatus(rangeStatus) ==
  CASE rangeStatus = "in range" -> "IN_RANGE"
    [] rangeStatus = "out of range" -> "OUT_OF_RANGE"
    [] rangeStatus = "" -> ""
    [] OTHER -> rangeStatus

\* tickLower and tickUpper are finite here: Number(pos.tickLower) of an int24
classifyLpRangeTier(rangeStatus, tickLower, tickUpper, currentTick) ==
  LET normStatus == normalizeStatus(rangeStatus)
      width == tickUpper - tickLower
      hasTicks == width > 0 /\ isFinite(currentTick)
      edgeWarn == env.LP_EDGE_WARN_FRAC
      edgeHigh == env.LP_EDGE_HIGH_FRAC
      outWarn == env.LP_OUT_WARN_FRAC
      outHigh == env.LP_OUT_HIGH_FRAC
  IN
  IF normStatus = "IN_RANGE" /\ hasTicks THEN
    LET positionNum == Val(currentTick) - tickLower
        centerNum == Min(positionNum, width - positionNum)
    IN IF centerNum < 0
       THEN [tier |-> "UNKNOWN", positionFrac |-> NULL, distanceFrac |-> NULL,
             label |-> "invalid in-range tick geometry"]
       ELSE LET tier == IF isFinite(edgeHigh) /\ FracLeqPm(centerNum, width, Val(edgeHigh)) THEN "HIGH"
                        ELSE IF isFinite(edgeWarn) /\ FracLeqPm(centerNum, width, Val(edgeWarn)) THEN "MEDIUM"
                        ELSE "LOW"
            IN [tier |-> tier, positionFrac |-> Some(<<positionNum, width>>),
                distanceFrac |-> Some(<<centerNum, width>>),
                label |-> IF tier = "LOW" THEN "comfortably in range"
                          ELSE IF tier = "MEDIUM" THEN "in range but near edge"
                          ELSE "in range and very close to edge"]
  ELSE IF normStatus = "OUT_OF_RANGE" /\ hasTicks THEN
    LET distanceNum == IF Val(currentTick) < tickLower THEN Some(tickLower - Val(currentTick))
                       ELSE IF Val(currentTick) >= tickUpper THEN Some(Val(currentTick) - tickUpper)
                       ELSE NULL
    IN IF ~isFinite(distanceNum) \/ Val(distanceNum) < 0
       THEN [tier |-> "HIGH", positionFrac |-> NULL, distanceFrac |-> NULL,
             label |-> "out of range (distance unknown)"]
       ELSE LET tier == IF isFinite(outWarn) /\ FracLeqPm(Val(distanceNum), width, Val(outWarn)) THEN "MEDIUM"
                        ELSE IF isFinite(outHigh) /\ FracLeqPm(Val(distanceNum), width, Val(outHigh)) THEN "HIGH"
                        ELSE "CRITICAL"
            IN [tier |-> tier, positionFrac |-> NULL,
                distanceFrac |-> Some(<<Val(distanceNum), width>>),
                label |-> IF tier = "MEDIUM" THEN "slightly out of range"
                          ELSE IF tier = "HIGH" THEN "far out of range"
                          ELSE "deeply out of range"]
  ELSE [tier |-> IF normStatus = "IN_RANGE" THEN "LOW" ELSE "UNKNOWN",
        positionFrac |-> NULL, distanceFrac |-> NULL,
        label |-> IF normStatus = "IN_RANGE" THEN "in range (no detailed geometry)"
                  ELSE "range not computed"]

-----------------------------------------------------------------------------
(* Alert engine helpers (alertEngine.js) *)

\* stableStringify: the payload's keys in sorted order with their values.  A
\* record is the set of its key/value pairs, so it is its own canonical form.
stableStringify(obj) == [key \in DOMAIN obj |-> obj[key]]

\* sha256 hex digest of the canonical form (collision-free)
makeSignature(payload) == Some([sha256 |-> stableStringify(payload)])

\* JSON.stringify(state) when state is an object, else null
stringifyState(state) == IF Len(state) = 1 THEN Some([json |-> Val(state)]) ELSE NULL

\* Math.round(x / 0.01) with x in basis points
fracBucket(x) == IF ~isFinite(x) THEN NULL ELSE Some((Val(x) + 50) \div 100)

\* An error thrown by discord.js: code and status are 0 when absent, message is
\* the set of phrases the lower-cased text contains.
Phrases == {"cannot send messages to this user", "missing access",
            "missing permissions", "timeout", "timed out"}
Err(c, st, m) == [code |-> c, status |-> st, message |-> m]
Errors == {Err(50007, 0, {}), Err(10013, 0, {}), Err(50007, 0, {"timeout"}),
           Err(0, 401, {}), Err(0, 403, {}), Err(0, 429, {}), Err(0, 500, {}),
           Err(0, 500, {"missing access"}),
           Err(0, 0, {"cannot send messages to this user"}), Err(0, 0, {"missing access"}),
           Err(0, 0, {"missing permissions"}), Err(0, 0, {"timeout"}),
           Err(0, 0, {"timed out"}), Err(0, 0, {})}

shouldDisableDmForError(err) ==
  LET code == err.code
      status == err.status
      msg == err.message
  IN IF code = 50007 THEN [disable |-> TRUE, reason |-> "Cannot send messages to this user (50007)"]
     ELSE IF code = 10013 THEN [disable |-> TRUE, reason |-> "Unknown user (10013)"]
     ELSE IF status = 403 \/ status = 401 THEN [disable |-> TRUE, reason |-> "HTTP status"]
     ELSE IF "cannot send messages to this user" \in msg
       THEN [disable |-> TRUE, reason |-> "cannot send messages to this user"]
     ELSE IF "missing access" \in msg \/ "missing permissions" \in msg
       THEN [disable |-> TRUE, reason |-> "missing access/permissions"]
     ELSE IF "timeout" \in msg \/ "timed out" \in msg THEN [disable |-> FALSE, reason |-> ""]
     ELSE IF status # 0 /\ status >= 500 THEN [disable |-> FALSE, reason |-> ""]
     ELSE IF status = 429 THEN [disable |-> FALSE, reason |-> ""]
     ELSE [disable |-> FALSE, reason |-> ""]

\* UPDATE users SET accepts_dm = 0 WHERE id = ?
disableUserDm(acc, userId) == [acc EXCEPT ![userId] = 0]

\* variant: the accepts_dm column is not consulted
getUserDmTarget_IgnoreOptOut(userId) ==
  IF userId \notin DOMAIN accepts_dm THEN NULL
  ELSE IF discord_id[userId] = "" THEN NULL
  ELSE Some([discordId |-> discord_id[userId]])

getUserDmTarget(userId) ==
  IF userId \notin DOMAIN accepts_dm THEN NULL
  ELSE IF accepts_dm[userId] # 1 THEN NULL
  ELSE IF discord_id[userId] = "" THEN NULL
  ELSE Some([discordId |-> discord_id[userId]])

-----------------------------------------------------------------------------
(* Tables alert_state and alert_log.  The created_at columns, the message    *)
(* text and meta_json are written once and never read back: they are left   *)
(* out of the rows.                                                         *)

RowKey(row) == <<row.user_id, row.wallet_id, row.contract_id, row.token_id>>

\* variant: the signature column is not selected
getPrevState_NoSignature(k) ==
  LET rows == {r \in alert_state : RowKey(r) = k}
  IN IF rows = {} THEN [isActive |-> 0, signature |-> NULL, stateJson |-> NULL]
     ELSE LET row == CHOOSE r \in rows : TRUE
          IN [isActive |-> row.is_active, signature |-> NULL,
              stateJson |-> row.state_json]

getPrevState(k) ==
  LET rows == {r \in alert_state : RowKey(r) = k}
  IN IF rows = {} THEN [isActive |-> 0, signature |-> NULL, stateJson |-> NULL]
     ELSE LET row == CHOOSE r \in rows : TRUE
          IN [isActive |-> row.is_active, signature |-> row.signature,
              stateJson |-> row.state_json]

NewRow(k, active, signature, stateJson) ==
  [user_id |-> k[1], wallet_id |-> k[2], contract_id |-> k[3], token_id |-> k[4],
   is_active |-> active, signature |-> signature, state_json |-> stateJson,
   last_seen_at |-> now]

\* variant: the DO UPDATE clause leaves last_seen_at alone
upsertAlertState_KeepLastSeen(table, k, isActive, signature, stateJson) ==
  LET conflict == {r \in table : RowKey(r) = k}
  IN IF conflict = {}
     THEN table \cup {NewRow(k, IF isActive THEN 1 ELSE 0, signature, stateJson)}
     ELSE (table \ conflict) \cup
          {[r EXCEPT !.is_active = IF isActive THEN 1 ELSE 0,
                     !.signature = signature,
                     !.state_json = stateJson] : r \in conflict}

\* variant: is_active is bound to 1 whatever isActive is
upsertAlertState_AlwaysActive(table, k, isActive, signature, stateJson) ==
  LET conflict == {r \in table : RowKey(r) = k}
  IN IF conflict = {}
     THEN table \cup {NewRow(k, 1, signature, stateJson)}
     ELSE (table \ conflict) \cup
          {[r EXCEPT !.is_active = 1,
                     !.signature = signature,
                     !.state_json = stateJson,
                     !.last_seen_at = now] : r \in conflict}

\* variant: a plain INSERT, without the ON CONFLICT clause or a unique index
upsertAlertState_InsertOnly(table, k, isActive, signature, stateJson) ==
  table \cup {NewRow(k, IF isActive THEN 1 ELSE 0, signature, stateJson)}

\* INSERT ... ON CONFLICT(user_id, wallet_id, contract_id, token_id) DO UPDATE
upsertAlertState(table, k, isActive, signature, stateJson) ==
  LET conflict == {r \in table : RowKey(r) = k}
  IN IF conflict = {}
     THEN table \cup {NewRow(k, IF isActive THEN 1 ELSE 0, signature, stateJson)}
     ELSE (table \ conflict) \cup
          {[r EXCEPT !.is_active = IF isActive THEN 1 ELSE 0,
                     !.signature = signature,
                     !.state_json = stateJson,
                     !.last_seen_at = now] : r \in conflict}

\* variant: the signature parameter is not bound
insertAlertLog_NoSignature(log, k, alertType, phase, signature) ==
  Append(log, [user_id |-> k[1], wallet_id |-> k[2], contract_id |-> k[3],
               token_id |-> k[4], alert_type |-> alertType, phase |-> phase,
               signature |-> NULL])

\* variant: the identity's latest row is replaced instead of a row appended
insertAlertLog_Overwrite(log, k, alertType, phase, signature) ==
  LET e == [user_id |-> k[1], wallet_id |-> k[2], contract_id |-> k[3],
            token_id |-> k[4], alert_type |-> alertType, phase |-> phase,
            signature |-> signature]
  IN IF Len(log) > 0 THEN [log EXCEPT ![Len(log)] = e] ELSE Append(log, e)

insertAlertLog(log, k, alertType, phase, signature) ==
  Append(log, [user_id |-> k[1], wallet_id |-> k[2], contract_id |-> k[3],
               token_id |-> k[4], alert_type |-> alertType, phase |-> phase,
               signature |-> signature])

-----------------------------------------------------------------------------
(* Core engine: processAlert and the DM it sends (alertEngine.js) *)

missingId(v) == v = UNDEFINED_ID     \* assertPresent on a numeric id
missingToken(v) == v = ""            \* assertPresent on String(positionId)

\* Locals of a processAlert call, with what held when it was entered: the
\* table sizes (log0, dm0), the clock (t0) and the user's accepts_dm (acc0).
NoCall == [k |-> BadLoanKey, alertType |-> "", isActive |-> FALSE, signature |-> NULL,
           stateJson |-> NULL, prevActive |-> FALSE, prevSignature |-> NULL,
           phase |-> "", log0 |-> 0, dm0 |-> 0, t0 |-> 0, acc0 |-> 0,
           delivery |-> "none", disabled |-> FALSE, result |-> "none"]

\* sendDmToUser up to its first await: look the target up, then call
\* client.users.fetch.  b holds the caller's locals.
sendDmToUser(userId, phase, b) ==
  LET target == getUserDmTarget(userId)
  IN IF target = NULL
     THEN /\ pc' = "idle"
          /\ cur' = [b EXCEPT !.delivery = "no_target"]
          /\ UNCHANGED alertDms
     ELSE IF client = NULL
     THEN /\ pc' = "idle"
          /\ cur' = [b EXCEPT !.delivery = "no_client"]
          /\ UNCHANGED alertDms
     ELSE /\ pc' = "fetch"
          /\ cur' = [b EXCEPT !.delivery = "fetching", !.result = "running"]
          /\ alertDms' = Append(alertDms, [userId |-> userId, k |-> b.k, phase |-> phase,
                                           signature |-> b.signature,
                                           logRow |-> Len(alert_log'),
                                           transient |-> FALSE])

processAlert(k, isActive, signaturePayload, state, alertType) ==
  IF missingId(k[1]) \/ missingId(k[2]) \/ missingId(k[3]) \/ missingToken(k[4])
  THEN /\ pc' = "idle"
       /\ cur' = [NoCall EXCEPT !.k = k, !.alertType = alertType, !.isActive = isActive,
                                !.log0 = Len(alert_log), !.dm0 = Len(alertDms),
                                !.phase = "THROW", !.result = "threw"]
       /\ UNCHANGED <<alert_state, alert_log, alertDms>>
  ELSE
  LET signature == makeSignature(signaturePayload)
      stateJson == stringifyState(state)
      prev == getPrevState(k)
      prevActive == prev.isActive = 1
      b == [NoCall EXCEPT !.k = k, !.alertType = alertType, !.isActive = isActive,
                          !.signature = signature, !.prevActive = prevActive,
                          !.prevSignature = prev.signature,
                          !.stateJson = stateJson,
                          !.log0 = Len(alert_log), !.dm0 = Len(alertDms),
                          !.t0 = now, !.acc0 = accepts_dm[k[1]],
                          !.result = "returned"]
  IN IF isActive /\ ~prevActive THEN
       /\ Len(alert_log) < MaxLog
       /\ alert_state' = upsertAlertState(alert_state, k, TRUE, signature, stateJson)
       /\ alert_log' = insertAlertLog(alert_log, k, alertType, "NEW", signature)
       /\ sendDmToUser(k[1], "NEW", [b EXCEPT !.phase = "NEW"])
     ELSE IF isActive /\ prevActive /\ prev.signature # signature THEN
       /\ Len(alert_log) < MaxLog
       /\ alert_state' = upsertAlertState(alert_state, k, TRUE, signature, stateJson)
       /\ alert_log' = insertAlertLog(alert_log, k, alertType, "UPDATED", signature)
       /\ sendDmToUser(k[1], "UPDATED", [b EXCEPT !.phase = "UPDATED"])
     ELSE IF isActive /\ prevActive /\ prev.signature = signature THEN
       /\ alert_state' = upsertAlertState(alert_state, k, TRUE, signature, stateJson)
       /\ pc' = "idle"
       /\ cur' = [b EXCEPT !.phase = "SAME"]
       /\ UNCHANGED <<alert_log, alertDms>>
     ELSE IF ~isActive /\ prevActive THEN
       /\ Len(alert_log) < MaxLog
       /\ alert_state' = upsertAlertState(alert_state, k, FALSE, NULL, stateJson)
       /\ alert_log' = insertAlertLog(alert_log, k, alertType, "RESOLVED", NULL)
       /\ pc' = "idle"
       /\ cur' = [b EXCEPT !.phase = "RESOLVED"]
       /\ UNCHANGED alertDms
     ELSE
       /\ alert_state' = upsertAlertState(alert_state, k, FALSE, NULL, stateJson)
       /\ pc' = "idle"
       /\ cur' = [b EXCEPT !.phase = "QUIET"]
       /\ UNCHANGED <<alert_log, alertDms>>

\* client.users.fetch settles: on failure classify and maybe disable DMs; on
\* success build the lines and call sendLongDM (one chunk: the text is short)
FetchSettles ==
  /\ pc = "fetch"
  /\ \/ /\ pc' = "send"
        /\ cur' = [cur EXCEPT !.delivery = "sending"]
        /\ UNCHANGED <<accepts_dm, alertDms>>
     \/ /\ pc' = "idle"
        /\ cur' = [cur EXCEPT !.delivery = "no_user", !.result = "returned"]
        /\ UNCHANGED <<accepts_dm, alertDms>>
     \/ \E err \in Errors :
          LET verdict == shouldDisableDmForError(err)
          IN /\ pc' = "idle"
             /\ cur' = [cur EXCEPT !.delivery = "fetch_failed", !.disabled = verdict.disable,
                                   !.result = "returned"]
             /\ alertDms' = [alertDms EXCEPT ![Len(alertDms)].transient = ~verdict.disable]
             /\ accepts_dm' = IF verdict.disable THEN disableUserDm(accepts_dm, cur.k[1])
                              ELSE accepts_dm
  /\ UNCHANGED <<sideVars, env, alert_state, alert_log, client, now, hb, lockMarker>>

\* variant: the catch around sendLongDM is missing and the error propagates
SendSettles_Rethrow ==
  /\ pc = "send"
  /\ \/ /\ pc' = "idle"
        /\ cur' = [cur EXCEPT !.delivery = "sent", !.result = "returned"]
        /\ UNCHANGED <<accepts_dm, alertDms>>
     \/ /\ pc' = "idle"
        /\ cur' = [cur EXCEPT !.delivery = "send_failed", !.result = "threw"]
        /\ UNCHANGED <<accepts_dm, alertDms>>
  /\ UNCHANGED <<sideVars, env, alert_state, alert_log, client, now, hb, lockMarker>>

\* sendLongDM settles
SendSettles ==
  /\ pc = "send"
  /\ \/ /\ pc' = "idle"
        /\ cur' = [cur EXCEPT !.delivery = "sent", !.result = "returned"]
        /\ UNCHANGED <<accepts_dm, alertDms>>
     \/ \E err \in Errors :
          LET verdict == shouldDisableDmForError(err)
          IN /\ pc' = "idle"
             /\ cur' = [cur EXCEPT !.delivery = "send_failed", !.disabled = verdict.disable,
                                   !.result = "returned"]
             /\ alertDms' = [alertDms EXCEPT ![Len(alertDms)].transient = ~verdict.disable]
             /\ accepts_dm' = IF verdict.disable THEN disableUserDm(accepts_dm, cur.k[1])
                              ELSE accepts_dm
  /\ UNCHANGED <<sideVars, env, alert_state, alert_log, client, now, hb, lockMarker>>

-----------------------------------------------------------------------------
(* Public alert handlers (alertEngine.js) *)

\* String(tier || "UNKNOWN")
tierOrUnknown(tier) == IF tier = "" THEN "UNKNOWN" ELSE tier

handleLiquidationAlert(data) ==
  LET k == <<data.userId, data.walletId, data.contractId, data.positionId>>
      sig == [tier |-> tierOrUnknown(data.tier),
              bufB |-> fracBucket(data.liquidationBufferFrac)]
  IN processAlert(k, data.isActive, sig,
                  Some([kind |-> "LOAN", tier |-> data.tier,
                        liquidationBufferFrac |-> data.liquidationBufferFrac]),
                  "LIQUIDATION")

\* rates in tenths of a percentage point; Math.round(diff * 2)
handleRedemptionAlert(data) ==
  LET k == <<data.userId, data.walletId, data.contractId, data.positionId>>
      diff == IF isFinite(data.cdpIR) /\ isFinite(data.globalIR)
              THEN Some(Val(data.cdpIR) - Val(data.globalIR)) ELSE NULL
      sig == [tier |-> tierOrUnknown(data.tier),
              isCDPActive |-> data.isCDPActive,
              diffB |-> IF ~isFinite(diff) THEN NULL
                        ELSE Some((2 * Val(diff) + 5) \div 10)]
  IN processAlert(k, data.isActive, sig,
                  Some([kind |-> "LOAN", tier |-> data.tier, cdpIR |-> data.cdpIR,
                        globalIR |-> data.globalIR, isCDPActive |-> data.isCDPActive]),
                  "REDEMPTION")

handleLpRangeAlert(data) ==
  LET k == <<data.userId, data.walletId, data.contractId, data.positionId>>
      state == [kind |-> "LP",
                rangeStatus |-> tierOrUnknown(data.currentStatus),
                lpRangeTier |-> tierOrUnknown(data.lpRangeTier),
                tickLower |-> data.tickLower,
                tickUpper |-> data.tickUpper,
                currentTick |-> data.currentTick]
  IN processAlert(k, data.isActive,
                  [currentStatus |-> tierOrUnknown(data.currentStatus),
                   lpRangeTier |-> tierOrUnknown(data.lpRangeTier)],
                  Some(state), "LP_RANGE")

-----------------------------------------------------------------------------
(* LP monitor (lpMonitor.js) *)

\* the monitored LP row and what the chain reads of one evaluation return
LpRow == [userId |-> LpKey[1], walletId |-> LpKey[2], contractId |-> LpKey[3],
          tokenId |-> LpKey[4]]
LpTickLower == 100
LpTickUpper == 200
\* pm.positions(): throws, reports zero liquidity, or reports the position;
\* pool.slot0(): currentTick, NULL when the pool read fails or is not finite
LpReads == [positions : {"throw", "zero", "ok"}, currentTick : {NULL}]
           \cup [positions : {"ok"},
                 currentTick : {Some(150), Some(230), Some(300)}]

describeLpPosition(row, read) ==
  IF read.positions = "throw" THEN UNCHANGED <<alert_state, alert_log, pc, cur, alertDms>>
  ELSE IF read.positions = "zero" THEN
    handleLpRangeAlert([userId |-> row.userId, walletId |-> row.walletId,
                        contractId |-> row.contractId, positionId |-> row.tokenId,
                        currentStatus |-> "INACTIVE", isActive |-> FALSE,
                        lpRangeTier |-> "UNKNOWN", tickLower |-> NULL,
                        tickUpper |-> NULL, currentTick |-> NULL])
  ELSE
    LET tickLower == LpTickLower
        tickUpper == LpTickUpper
        currentTick == read.currentTick
        currentStatus == IF isFinite(currentTick)
                         THEN IF Val(currentTick) >= tickLower /\ Val(currentTick) < tickUpper
                              THEN "IN_RANGE" ELSE "OUT_OF_RANGE"
                         ELSE "UNKNOWN"
        lpClass == classifyLpRangeTier(currentStatus, tickLower, tickUpper, currentTick)
        isActive == currentStatus = "OUT_OF_RANGE"
                    /\ isLpTierAtLeast(lpClass.tier, env.LP_ALERT_MIN_TIER)
    IN handleLpRangeAlert([userId |-> row.userId, walletId |-> row.walletId,
                           contractId |-> row.contractId, positionId |-> row.tokenId,
                           currentStatus |-> currentStatus, isActive |-> isActive,
                           lpRangeTier |-> lpClass.tier, tickLower |-> Some(tickLower),
                           tickUpper |-> Some(tickUpper), currentTick |-> currentTick])

\* one iteration of the monitorLPs loop; a throw is caught and logged there
MonitorLp ==
  /\ pc = "idle"
  /\ \E read \in LpReads : describeLpPosition(LpRow, read)
  /\ UNCHANGED <<sideVars, env, accepts_dm, client, now, hb, lockMarker>>

-----------------------------------------------------------------------------
(* Loan monitor calls into the engine (monitoring/loanMonitor.js is the caller) *)

LiquidationData ==
  [userId : {1}, walletId : {1}, contractId : {1}, positionId : {"7"},
   isActive : BOOLEAN, tier : {"HIGH"},
   liquidationBufferFrac : {Some(1234), Some(1249)}]
  \cup [userId : {1}, walletId : {1}, contractId : {UNDEFINED_ID}, positionId : {"7"},
        isActive : {TRUE}, tier : {"HIGH"}, liquidationBufferFrac : {NULL}]

RedemptionData ==
  [userId : {1}, walletId : {1}, contractId : {1}, positionId : {"7"},
   isActive : BOOLEAN, tier : {"MEDIUM"}, cdpIR : {Some(50)},
   globalIR : {Some(62)}, isCDPActive : {TRUE}]

LiquidationAlert ==
  /\ pc = "idle"
  /\ \E data \in LiquidationData : handleLiquidationAlert(data)
  /\ UNCHANGED <<sideVars, env, accepts_dm, client, now, hb, lockMarker>>

RedemptionAlert ==
  /\ pc = "idle"
  /\ \E data \in RedemptionData : handleRedemptionAlert(data)
  /\ UNCHANGED <<sideVars, env, accepts_dm, client, now, hb, lockMarker>>

-----------------------------------------------------------------------------
(* Snapshot refresh lock as one caller sees it (utils/lock.js) *)

\* acquireLock(name): an existing marker is removed when its owner pid is
\* dead, kept when it is younger than STALE_MS, removed when older; then the
\* marker is created with flag "wx".  Returns the new marker and the path
\* (NULL when not acquired).
acquireLock(marker, self, ownerAlive, young) ==
  IF marker = NULL THEN [marker |-> Some(self), lockPath |-> Some("snapshot-refresh.lock")]
  ELSE IF ~ownerAlive THEN [marker |-> Some(self), lockPath |-> Some("snapshot-refresh.lock")]
  ELSE IF young THEN [marker |-> marker, lockPath |-> NULL]
  ELSE [marker |-> Some(self), lockPath |-> Some("snapshot-refresh.lock")]

\* variant: the unlink is missing
releaseLock_KeepsMarker(marker, lockPath) == marker

\* releaseLock(lockPath): unlink the path, whoever wrote the marker
releaseLock(marker, lockPath) == IF lockPath = NULL THEN marker ELSE NULL

-----------------------------------------------------------------------------
(* Daily heartbeat (dailyHeartbeat.js) *)

\* refresh: how the staleness check of this run went ("none" before it,
\* "fresh", "busy" when the lock was not acquired, "held", "released"), kept
\* until the first recipient's fetch settles; threw: the refresh steps that threw
NoRun == [pc |-> "idle", queue |-> <<>>, lockPath |-> NULL, lastFail |-> "none",
          refresh |-> "none", threw |-> {}]

\* users with accepts_dm = 1, a discord id and an enabled wallet
getHeartbeatRecipients == {u \in Users : accepts_dm[u] = 1 /\ discord_id[u] # ""}

\* UPDATE users SET accepts_dm = 0 WHERE id = ?
markUserCannotDm(acc, userId) == [acc EXCEPT ![userId] = 0]

\* the orders in which the rows of a result set may come back
Orders(S) == {q \in UNION {[1..n -> S] : n \in 0..Cardinality(S)} :
                /\ Len(q) = Cardinality(S)
                /\ \A i, j \in 1..Len(q) : i # j => q[i] # q[j]}

\* the loop of sendDailyHeartbeat from the top of an iteration to its first
\* await: the function returns after the last recipient, otherwise
\* client.users.fetch is called for the next one
HbNextRecipient(run) ==
  IF run.queue = <<>> THEN NoRun
  ELSE [run EXCEPT !.pc = "fetch"]

\* variant: the function returns after its first recipient
HbAfterRecipient_Returns(run, fail) == [NoRun EXCEPT !.lastFail = fail]

\* the loop moves past the recipient at the head of the queue
HbAfterRecipient(run, fail) ==
  [HbNextRecipient([run EXCEPT !.queue = Tail(run.queue), !.refresh = "none",
                               !.threw = {}])
     EXCEPT !.lastFail = fail]

\* sendDailyHeartbeat up to its first await: select the recipients, keep the
\* ones scheduled for this hour, start fetching the summaries
HbStart ==
  /\ hb.pc = "idle"
  /\ client # NULL
  /\ LET recipients == getHeartbeatRecipients
     IN \E scheduled \in SUBSET recipients :
          /\ scheduled # {}
          /\ \E q \in Orders(scheduled) :
               hb' = [NoRun EXCEPT !.pc = "summaries", !.queue = q]
  /\ UNCHANGED <<sideVars, env, alert_state, alert_log, accepts_dm, client, now, pc, cur, alertDms,
                 lockMarker>>

\* getLoanSummaries / getLpSummaries settle; stale data takes the lock
HbSummaries ==
  /\ hb.pc = "summaries"
  /\ \/ /\ hb' = NoRun                                  \* fetch failed: return
        /\ UNCHANGED lockMarker
     \/ /\ hb' = HbNextRecipient([hb EXCEPT !.refresh = "fresh"])
        /\ UNCHANGED lockMarker
     \/ \E ownerAlive, young \in BOOLEAN :                \* stale
          LET got == acquireLock(lockMarker, "bot", ownerAlive, young)
          IN /\ lockMarker' = got.marker
             /\ hb' = IF got.lockPath = NULL
                      THEN HbNextRecipient([hb EXCEPT !.refresh = "busy"])
                      ELSE [hb EXCEPT !.pc = "refreshLoans", !.lockPath = got.lockPath,
                                      !.refresh = "held"]
  /\ UNCHANGED <<sideVars, env, alert_state, alert_log, accepts_dm, client, now, pc, cur, alertDms>>

\* refreshLoanSnapshots settles (a throw is caught and logged),
\* refreshLpSnapshots starts
HbRefreshLoans ==
  /\ hb.pc = "refreshLoans"
  /\ \E throws \in BOOLEAN :
       hb' = [hb EXCEPT !.pc = "refreshLps",
                        !.threw = IF throws THEN @ \cup {"loans"} ELSE @]
  /\ UNCHANGED <<sideVars, env, alert_state, alert_log, accepts_dm, client, now, pc, cur, alertDms,
                 lockMarker>>

\* refreshLpSnapshots settles (a throw is caught and logged), the summaries
\* are re-read
HbRefreshLps ==
  /\ hb.pc = "refreshLps"
  /\ \E throws \in BOOLEAN :
       hb' = [hb EXCEPT !.pc = "refetch",
                        !.threw = IF throws THEN @ \cup {"lps"} ELSE @]
  /\ UNCHANGED <<sideVars, env, alert_state, alert_log, accepts_dm, client, now, pc, cur, alertDms,
                 lockMarker>>

\* the re-read settles (a throw is caught: the earlier summaries stay);
\* finally releaseLock; delivery starts
HbRefetch ==
  /\ hb.pc = "refetch"
  /\ lockMarker' = releaseLock(lockMarker, hb.lockPath)
  /\ \E throws \in BOOLEAN :
       hb' = HbNextRecipient([hb EXCEPT !.lockPath = NULL, !.refresh = "released",
                                        !.threw = IF throws THEN @ \cup {"reread"} ELSE @])
  /\ UNCHANGED <<sideVars, env, alert_state, alert_log, accepts_dm, client, now, pc, cur, alertDms>>

\* the catch block of the delivery loop
HbCatch(acc, userId, err) == IF err.code = 50007 THEN markUserCannotDm(acc, userId) ELSE acc

\* how the alert engine's classifier rates the error
FailClass(err) == IF shouldDisableDmForError(err).disable THEN "blocked" ELSE "transient"

\* client.users.fetch settles for the recipient at the head of the queue
HbFetchSettles ==
  /\ hb.pc = "fetch"
  /\ \/ /\ hb' = [hb EXCEPT !.pc = "send", !.lastFail = "none", !.refresh = "none",
                            !.threw = {}]
        /\ UNCHANGED accepts_dm
     \/ \E err \in Errors :
          /\ accepts_dm' = HbCatch(accepts_dm, Head(hb.queue), err)
          /\ hb' = HbAfterRecipient(hb, FailClass(err))
  /\ UNCHANGED <<sideVars, env, alert_state, alert_log, client, now, pc, cur, alertDms, lockMarker>>

\* user.send of the embeds settles
HbSendSettles ==
  /\ hb.pc = "send"
  /\ \/ /\ hb' = HbAfterRecipient(hb, "none")
        /\ UNCHANGED accepts_dm
     \/ \E err \in Errors :
          /\ accepts_dm' = HbCatch(accepts_dm, Head(hb.queue), err)
          /\ hb' = HbAfterRecipient(hb, FailClass(err))
  /\ UNCHANGED <<sideVars, env, alert_state, alert_log, client, now, pc, cur, alertDms, lockMarker>>

\* another process takes or drops the snapshot-refresh marker
OtherProcessLock ==
  /\ \/ lockMarker = NULL /\ lockMarker' = Some("other")
     \/ lockMarker = Some("other") /\ lockMarker' = NULL
  /\ UNCHANGED <<sideVars, env, alert_state, alert_log, accepts_dm, client, now, pc, cur, alertDms, hb>>

-----------------------------------------------------------------------------
(* The file lock under concurrent processes (utils/lock.js), one file-system
   call per step *)

Procs == {"p1", "p2", "p3"}

\* the two builds of utils/lock.js: with and without the owner-pid probe
LockImpls == {"pid", "age"}

NoLockCall == [pc |-> "idle", impl |-> "pid", seen |-> "none", alone |-> TRUE,
               result |-> "none"]

\* isPidAlive(pid): process.kill(pid, 0) finds the process
isPidAlive(pid) == lockProcs[pid].pc # "dead"

\* what statSync and parseLockPid report of the marker
lockSeen(file) ==
  IF file = NULL THEN "enoent"
  ELSE IF ~isPidAlive(Val(file).pid) THEN IF Val(file).young THEN "dead-young" ELSE "dead-old"
  ELSE IF Val(file).young THEN "young" ELSE "old"

\* the branch acquireLock takes on what it saw: go on to create the marker,
\* unlink the marker first, or return null
lockBranch(impl, seen) ==
  IF seen = "enoent" THEN "create"
  ELSE IF impl = "pid" /\ seen \in {"dead-young", "dead-old"} THEN "unlink"
  ELSE IF seen \in {"young", "dead-young"} THEN "null"
  ELSE "unlink"

\* every other call in flight has had the file changed under it
Disturb(procs, p) ==
  [q \in Procs |-> IF q # p /\ procs[q].pc \in {"unlink", "create"}
                   THEN [procs[q] EXCEPT !.alone = FALSE] ELSE procs[q]]

\* acquireLock up to its decision: statSync, parseLockPid, isPidAlive
LockStat(p) ==
  /\ lockProcs[p].pc = "idle"
  /\ \E impl \in LockImpls :
       LET seen == lockSeen(lockFile)
           branch == lockBranch(impl, seen)
       IN lockProcs' = [lockProcs EXCEPT ![p] =
            [pc |-> IF branch = "null" THEN "idle" ELSE branch,
             impl |-> impl, seen |-> seen, alone |-> TRUE,
             result |-> IF branch = "null" THEN "null" ELSE "none"]]
  /\ UNCHANGED <<besidesLock, lockFile>>

\* unlinkSync of the marker found stale; a failure returns null
LockUnlink(p) ==
  /\ lockProcs[p].pc = "unlink"
  /\ IF lockFile = NULL
     THEN /\ lockProcs' = [lockProcs EXCEPT ![p].pc = "idle", ![p].result = "null"]
          /\ UNCHANGED lockFile
     ELSE /\ lockFile' = NULL
          /\ lockProcs' = [Disturb(lockProcs, p) EXCEPT ![p].pc = "create"]
  /\ UNCHANGED besidesLock

\* writeFileSync(lockPath, {pid, startedAt}, {flag: "wx"}); EEXIST returns null
LockCreate(p) ==
  /\ lockProcs[p].pc = "create"
  /\ IF lockFile = NULL
     THEN /\ lockFile' = Some([pid |-> p, young |-> TRUE])
          /\ lockProcs' = [Disturb(lockProcs, p) EXCEPT ![p].pc = "holding",
                                                        ![p].result = "acquired"]
     ELSE /\ lockProcs' = [lockProcs EXCEPT ![p].pc = "idle", ![p].result = "null"]
          /\ UNCHANGED lockFile
  /\ UNCHANGED besidesLock

\* releaseLock(lockPath): unlinkSync, best effort
LockRelease(p) ==
  /\ lockProcs[p].pc = "holding"
  /\ lockFile' = NULL
  /\ lockProcs' = [Disturb(lockProcs, p) EXCEPT ![p] = NoLockCall]
  /\ UNCHANGED besidesLock

\* STALE_MS pass since the marker was written
MarkerAges ==
  /\ lockFile # NULL
  /\ Val(lockFile).young
  /\ lockFile' = Some([Val(lockFile) EXCEPT !.young = FALSE])
  /\ UNCHANGED <<besidesLock, lockProcs>>

\* a process exits or is killed, wherever it is
ProcessDies(p) ==
  /\ lockProcs[p].pc # "dead"
  /\ lockProcs' = [lockProcs EXCEPT ![p].pc = "dead"]
  /\ UNCHANGED <<besidesLock, lockFile>>

LockInit ==
  /\ lockFile = NULL
  /\ lockProcs = [p \in Procs |-> NoLockCall]

-----------------------------------------------------------------------------
(* Monitoring job (jobs/monitoringJob.js) *)

\* isRunning is the closure variable; step is where the cycle in flight
\* awaits; inFlight counts the runOnce activations between isRunning = true
\* and the finally block; calls, started and skipped count runOnce calls;
\* lastEnd is how the latest cycle ended
NoJob == [booted |-> FALSE, isRunning |-> FALSE, step |-> "idle", inFlight |-> 0,
          timers |-> 0, calls |-> 0, started |-> 0, skipped |-> 0, lastEnd |-> "none"]

\* variant: runOnce without the isRunning check
runOnce_NoGuard(j) ==
  [j EXCEPT !.isRunning = TRUE, !.step = "monitorLoans", !.inFlight = @ + 1,
            !.calls = @ + 1, !.started = @ + 1]

\* runOnce(label) up to its first await
runOnce(j) ==
  IF j.isRunning
  THEN [j EXCEPT !.calls = @ + 1, !.skipped = @ + 1]
  ELSE [j EXCEPT !.isRunning = TRUE, !.step = "monitorLoans", !.inFlight = @ + 1,
                 !.calls = @ + 1, !.started = @ + 1]

\* variant: isRunning is not reset when the cycle ends
runOnceFinally_NoReset(j) == [j EXCEPT !.step = "idle", !.inFlight = @ - 1]

\* the finally block of runOnce
runOnceFinally(j) == [j EXCEPT !.isRunning = FALSE, !.step = "idle", !.inFlight = @ - 1]

\* startMonitoringJob: void runOnce("(startup) ..."), then cron.schedule
JobStartup ==
  /\ ~job.booted
  /\ job' = [runOnce(job) EXCEPT !.booted = TRUE]
  /\ UNCHANGED besidesJob

\* the cron callback: setTimeout(() => runOnce(...), jitterMs)
JobCronTick ==
  /\ job.booted
  /\ job.timers < MaxTimers
  /\ job' = [job EXCEPT !.timers = @ + 1]
  /\ UNCHANGED besidesJob

\* a jitter timer expires; timers expire in any order
JobTimerFires ==
  /\ job.timers > 0
  /\ job.calls < MaxCalls
  /\ job' = [runOnce(job) EXCEPT !.timers = @ - 1]
  /\ UNCHANGED besidesJob

\* await monitorLoans() settles: monitorLPs starts, or the throw is caught
JobLoansSettle ==
  /\ job.step = "monitorLoans"
  /\ \/ job' = [job EXCEPT !.step = "monitorLPs"]
     \/ job' = [runOnceFinally(job) EXCEPT !.lastEnd = "threw"]
  /\ UNCHANGED besidesJob

\* await monitorLPs() settles, either way
JobLpsSettle ==
  /\ job.step = "monitorLPs"
  /\ \E end \in {"returned", "threw"} :
       job' = [runOnceFinally(job) EXCEPT !.lastEnd = end]
  /\ UNCHANGED besidesJob

-----------------------------------------------------------------------------
(* Scan cursors (db/index.js) *)

\* contracts.default_start_block by contract id; id 3 has no row
ContractIds == {1, 2}
default_start_block == [c \in ContractIds |-> IF c = 1 THEN 3 ELSE 0]

\* ensureContractScanCursor(db, {contractId, startBlock}): the table after the
\* call; a throw leaves the table as it was
ensureContractScanCursor(table, contractId, startBlock) ==
  IF contractId = 0 THEN table                              \* missing contractId
  ELSE IF startBlock = NULL /\ contractId \notin ContractIds THEN table
  ELSE LET sb == IF startBlock = NULL THEN default_start_block[contractId]
                 ELSE Val(startBlock)
       IN IF sb < 0 THEN table
          ELSE IF contractId \notin ContractIds THEN table    \* foreign key
          ELSE IF table[contractId] # NULL THEN table         \* ON CONFLICT DO NOTHING
          ELSE [table EXCEPT ![contractId] =
                  Some([start_block |-> sb, last_scanned_block |-> 0])]

EnsureContractScanCursor ==
  /\ \E contractId \in 0..3, startBlock \in {NULL} \cup {Some(n) : n \in -1..MaxBlock} :
       contract_scan_cursors' =
         ensureContractScanCursor(contract_scan_cursors, contractId, startBlock)
  /\ UNCHANGED besidesScan

\* the indexer persists lastScannedBlock = window.end after a window of
\* [cursor, head] is fully processed
AdvanceCursor ==
  /\ \E c \in ContractIds, end \in 0..MaxBlock :
       /\ contract_scan_cursors[c] # NULL
       /\ end > Val(contract_scan_cursors[c]).last_scanned_block
       /\ end >= Val(contract_scan_cursors[c]).start_block
       /\ contract_scan_cursors' =
            [contract_scan_cursors EXCEPT ![c] =
               Some([Val(@) EXCEPT !.last_scanned_block = end])]
  /\ UNCHANGED besidesScan

-----------------------------------------------------------------------------
(* Creation-block discovery (the Steer scan script) *)

\* deployedAt: the block the contract was created in, latest + 1 when it has
\* no code at the chain head
NoSearch == [pc |-> "idle", latest |-> 0, deployedAt |-> 0, lo |-> 0, hi |-> 0,
             result |-> NULL]

\* hasCodeAtBlock(provider, address, blockTag) for a provider that reports no
\* code below the creation block and code from it on
hasCodeAtBlock(sr, blockTag) == blockTag >= sr.deployedAt

\* variant: the upper half is cut to mid - 1
searchStep_DropsMid(sr) ==
  LET mid == (sr.lo + sr.hi) \div 2
  IN IF hasCodeAtBlock(sr, mid) THEN [sr EXCEPT !.hi = mid - 1]
     ELSE [sr EXCEPT !.lo = mid + 1]

\* one iteration of the while (lo < hi) loop
searchStep(sr) ==
  LET mid == (sr.lo + sr.hi) \div 2
  IN IF hasCodeAtBlock(sr, mid) THEN [sr EXCEPT !.hi = mid]
     ELSE [sr EXCEPT !.lo = mid + 1]

\* findContractCreationBlock up to the loop: getBlockNumber, hasCodeAtBlock(latest)
SearchStart ==
  /\ search.pc \in {"idle", "done"}
  /\ \E latest \in 0..MaxLatest, deployedAt \in 0..(MaxLatest + 1) :
       /\ deployedAt <= latest + 1
       /\ LET sr == [NoSearch EXCEPT !.latest = latest, !.deployedAt = deployedAt]
          IN search' = IF ~hasCodeAtBlock(sr, latest)
                       THEN [sr EXCEPT !.pc = "done", !.result = NULL]
                       ELSE [sr EXCEPT !.pc = "loop", !.lo = 0, !.hi = latest]
  /\ UNCHANGED besidesSearch

\* the loop test fails: return lo
SearchReturns ==
  /\ search.pc = "loop"
  /\ ~(search.lo < search.hi)
  /\ search' = [search EXCEPT !.pc = "done", !.result = Some(search.lo)]
  /\ UNCHANGED besidesSearch

\* the loop test holds: probe mid
SearchProbe ==
  /\ search.pc = "loop"
  /\ search.lo < search.hi
  /\ search' = searchStep(search)
  /\ UNCHANGED besidesSearch

-----------------------------------------------------------------------------
(* Rate-limit retry (the Steer scan script) *)

DEFAULT_MAX_ATTEMPTS == 6
BASE_BACKOFF_MS == 600
MAX_BACKOFF_MS == 10000

\* messages of the errors fn may throw
RetryErrors == {"Too Many Requests", "rate limit exceeded", "retry in 3 s",
                "error -32090", "timeout", "execution reverted"}

\* isRateLimitError(err): the lower-cased message includes "too many
\* requests", "rate limit", "retry in" or "-32090"
isRateLimitError(err) ==
  err \in {"Too Many Requests", "rate limit exceeded", "retry in 3 s", "error -32090"}

\* parseRetryAfterMs(err): the seconds of "retry in <n> s" in milliseconds
parseRetryAfterMs(err) == IF err = "retry in 3 s" THEN Some(3000) ELSE NULL

\* calls: calls of fn made; failures: rate-limit errors fn has thrown;
\* thrown: the error withRetry threw
NoRetry == [pc |-> "idle", maxAttempts |-> DEFAULT_MAX_ATTEMPTS, attempt |-> 0,
            backoff |-> BASE_BACKOFF_MS, slept |-> 0, calls |-> 0, failures |-> 0,
            lastErr |-> "", outcome |-> "none", thrown |-> ""]

\* variant: the catch gives up only when attempt > maxAttempts
retryCatch_OffByOne(rt, err) ==
  LET failed == [rt EXCEPT !.lastErr = err,
                           !.failures = IF isRateLimitError(err) THEN @ + 1 ELSE @]
  IN IF ~isRateLimitError(err) \/ rt.attempt > rt.maxAttempts
     THEN [failed EXCEPT !.pc = "done", !.outcome = "threw", !.thrown = err]
     ELSE LET retryAfter == parseRetryAfterMs(err)
          IN [failed EXCEPT !.pc = "sleep",
                            !.slept = IF retryAfter # NULL THEN Val(retryAfter)
                                      ELSE rt.backoff]

\* variant: every error is retried while attempts are left
retryCatch_RetriesAll(rt, err) ==
  LET failed == [rt EXCEPT !.lastErr = err,
                           !.failures = IF isRateLimitError(err) THEN @ + 1 ELSE @]
  IN IF rt.attempt >= rt.maxAttempts
     THEN [failed EXCEPT !.pc = "done", !.outcome = "threw", !.thrown = err]
     ELSE LET retryAfter == parseRetryAfterMs(err)
          IN [failed EXCEPT !.pc = "sleep",
                            !.slept = IF retryAfter # NULL THEN Val(retryAfter)
                                      ELSE rt.backoff]

\* the catch block: rethrow, or sleep for the retry-after or the backoff
retryCatch(rt, err) ==
  LET failed == [rt EXCEPT !.lastErr = err,
                           !.failures = IF isRateLimitError(err) THEN @ + 1 ELSE @]
  IN IF ~isRateLimitError(err) \/ rt.attempt >= rt.maxAttempts
     THEN [failed EXCEPT !.pc = "done", !.outcome = "threw", !.thrown = err]
     ELSE LET retryAfter == parseRetryAfterMs(err)
          IN [failed EXCEPT !.pc = "sleep",
                            !.slept = IF retryAfter # NULL THEN Val(retryAfter)
                                      ELSE rt.backoff]

\* the while test: call fn again, or throw "exhausted retries"
retryLoop(rt) ==
  IF rt.attempt < rt.maxAttempts THEN [rt EXCEPT !.pc = "call"]
  ELSE [rt EXCEPT !.pc = "done", !.outcome = "threw", !.thrown = "exhausted retries"]

\* withRetry(fn, {maxAttempts}) up to the first call of fn
RetryStart ==
  /\ retry.pc \in {"idle", "done"}
  /\ \E maxAttempts \in 1..DEFAULT_MAX_ATTEMPTS :
       retry' = retryLoop([NoRetry EXCEPT !.maxAttempts = maxAttempts])
  /\ UNCHANGED besidesRetry

\* attempt += 1; await fn() settles
RetryCall ==
  /\ retry.pc = "call"
  /\ LET rt == [retry EXCEPT !.attempt = @ + 1, !.calls = @ + 1]
     IN \/ retry' = [rt EXCEPT !.pc = "done", !.outcome = "returned"]
        \/ \E err \in RetryErrors : retry' = retryCatch(rt, err)
  /\ UNCHANGED besidesRetry

\* the sleep ends: backoff doubles up to MAX_BACKOFF_MS, the loop goes round
RetrySleep ==
  /\ retry.pc = "sleep"
  /\ LET doubled == retry.backoff * 2
     IN retry' = retryLoop([retry EXCEPT !.backoff = IF doubled < MAX_BACKOFF_MS
                                                     THEN doubled ELSE MAX_BACKOFF_MS])
  /\ UNCHANGED besidesRetry

-----------------------------------------------------------------------------
(* Loading the LP monitor's configuration (lpMonitor.js) *)

\* what process.env may hold for a cutoff: unset, empty, not a number, or
\* the decimal fraction of the deployment
RawCutoffs(valid) == {NULL, Some(""), Some("abc"), Some(valid)}
RawTiers == {NULL, Some("high"), Some("bogus")}

RawEnvs ==
  [LP_ALERT_MIN_TIER : RawTiers,
   LP_EDGE_WARN_FRAC : RawCutoffs("0.2"), LP_EDGE_HIGH_FRAC : RawCutoffs("0.1"),
   LP_OUT_WARN_FRAC : RawCutoffs("0.1"), LP_OUT_HIGH_FRAC : RawCutoffs("0.5")]

DefaultRaw ==
  [LP_ALERT_MIN_TIER |-> Some("high"),
   LP_EDGE_WARN_FRAC |-> Some("0.2"), LP_EDGE_HIGH_FRAC |-> Some("0.1"),
   LP_OUT_WARN_FRAC |-> Some("0.1"), LP_OUT_HIGH_FRAC |-> Some("0.5")]

\* Number(process.env.X), in per-mille: NaN for undefined and for text that
\* is not a number, 0 for the empty string
Number(raw) ==
  IF raw = NULL THEN NULL
  ELSE CASE Val(raw) = "" -> Some(0)
         [] Val(raw) = "0.1" -> Some(100)
         [] Val(raw) = "0.2" -> Some(200)
         [] Val(raw) = "0.5" -> Some(500)
         [] OTHER -> NULL

\* String(process.env.LP_ALERT_MIN_TIER || "UNKNOWN").toUpperCase()
minTierOf(raw) ==
  IF raw = NULL \/ raw = Some("") THEN "UNKNOWN"
  ELSE CASE raw = Some("low") -> "LOW"
         [] raw = Some("medium") -> "MEDIUM"
         [] raw = Some("high") -> "HIGH"
         [] raw = Some("critical") -> "CRITICAL"
         [] raw = Some("unknown") -> "UNKNOWN"
         [] OTHER -> "BOGUS"

\* the module body of lpMonitor.js: the constants it defines, or NULL when it throws
loadLpMonitor(raw) ==
  LET minTier == minTierOf(raw.LP_ALERT_MIN_TIER)
  IN IF indexOf(LP_TIER_ORDER, minTier) = -1 THEN NULL
     ELSE Some([LP_ALERT_MIN_TIER |-> minTier,
                LP_EDGE_WARN_FRAC |-> Number(raw.LP_EDGE_WARN_FRAC),
                LP_EDGE_HIGH_FRAC |-> Number(raw.LP_EDGE_HIGH_FRAC),
                LP_OUT_WARN_FRAC |-> Number(raw.LP_OUT_WARN_FRAC),
                LP_OUT_HIGH_FRAC |-> Number(raw.LP_OUT_HIGH_FRAC)])

\* classified: the tier of the latest classifyLpRangeTier call since the load
LoadedConfig == [status |-> "loaded", raw |-> DefaultRaw, classified |-> "none"]

\* the module constants before the module body has run
NoEnv == [LP_ALERT_MIN_TIER |-> "", LP_EDGE_WARN_FRAC |-> NULL, LP_EDGE_HIGH_FRAC |-> NULL,
          LP_OUT_WARN_FRAC |-> NULL, LP_OUT_HIGH_FRAC |-> NULL]

\* the process is started again with some environment
ProcessStarts ==
  /\ lpConfig.status # "starting"
  /\ env' = NoEnv
  /\ \E raw \in RawEnvs :
       lpConfig' = [status |-> "starting", raw |-> raw, classified |-> "none"]
  /\ UNCHANGED besidesConfig

\* require("../monitoring/lpMonitor") runs the module body
LoadLpMonitor ==
  /\ lpConfig.status = "starting"
  /\ LET loaded == loadLpMonitor(lpConfig.raw)
     IN IF loaded = NULL
        THEN /\ lpConfig' = [lpConfig EXCEPT !.status = "failed"]
             /\ UNCHANGED env
        ELSE /\ lpConfig' = [lpConfig EXCEPT !.status = "loaded"]
             /\ env' = Val(loaded)
  /\ UNCHANGED besidesConfig

\* the LP_ALERT_MIN_TIER settings the module body accepts, unset included
AcceptedMinTiers == {NULL, Some("low"), Some("medium"), Some("high"), Some("critical"),
                     Some("unknown")}

\* the bot is restarted between two monitoring cycles with the deployment's
\* cutoffs and some accepted LP_ALERT_MIN_TIER; the database is kept
RestartWithMinTier ==
  /\ pc = "idle"
  /\ \E t \in AcceptedMinTiers :
       LET raw == [DefaultRaw EXCEPT !.LP_ALERT_MIN_TIER = t]
           loaded == loadLpMonitor(raw)
       IN /\ loaded # NULL
          /\ env' = Val(loaded)
          /\ lpConfig' = [status |-> "loaded", raw |-> raw, classified |-> "none"]
  /\ UNCHANGED besidesConfig

\* a caller classifies a position with ticks [100, 200)
ClassifyLp ==
  /\ lpConfig.status = "loaded"
  /\ \E currentTick \in {105, 150, 230, 300} :
       LET status == IF currentTick >= LpTickLower /\ currentTick < LpTickUpper
                     THEN "IN_RANGE" ELSE "OUT_OF_RANGE"
       IN lpConfig' = [lpConfig EXCEPT !.classified =
            classifyLpRangeTier(status, LpTickLower, LpTickUpper,
                                Some(currentTick)).tier]
  /\ UNCHANGED <<env, besidesConfig>>

-----------------------------------------------------------------------------
(* Classifying tick geometries (lpMonitor.js) *)

\* <<tickLower, tickUpper>> of positions on chain, the degenerate pairs a
\* caller may pass, and the current ticks tried against them
Geometries == {<<100, 200>>, <<0, 10>>}
BadGeometries == {<<10, 0>>, <<5, 5>>}
TickSamples == {95, 100, 110, 120, 150, 190, 199, 200, 210, 250, 251}
               \cup {-5, -1, 0, 1, 2, 5, 9, 10, 11, 15, 16}
RangeStatuses == {"IN_RANGE", "OUT_OF_RANGE", "UNKNOWN", "in range"}

NoTiering == [rangeStatus |-> "", tickLower |-> NULL, tickUpper |-> NULL,
              currentTick |-> NULL, derived |-> FALSE, called |-> FALSE,
              out |-> [tier |-> "", positionFrac |-> NULL, distanceFrac |-> NULL,
                       label |-> ""]]

\* describeLpPosition: currentStatus from the pool's tick
deriveRangeStatus(tickLower, tickUpper, currentTick) ==
  IF isFinite(currentTick)
  THEN IF Val(currentTick) >= tickLower /\ Val(currentTick) < tickUpper
       THEN "IN_RANGE" ELSE "OUT_OF_RANGE"
  ELSE "UNKNOWN"

\* classifyLpRangeTier on bounds that need not be finite: width is NaN then,
\* hasTicks is false and the call falls through to its last return
classifyLpRangeTierOf(rangeStatus, tickLower, tickUpper, currentTick) ==
  IF isFinite(tickLower) /\ isFinite(tickUpper)
  THEN classifyLpRangeTier(rangeStatus, Val(tickLower), Val(tickUpper), currentTick)
  ELSE LET normStatus == normalizeStatus(rangeStatus)
       IN [tier |-> IF normStatus = "IN_RANGE" THEN "LOW" ELSE "UNKNOWN",
           positionFrac |-> NULL, distanceFrac |-> NULL,
           label |-> IF normStatus = "IN_RANGE" THEN "in range (no detailed geometry)"
                     ELSE "range not computed"]

\* describeLpPosition from the pool read to the classification
DescribeTicks ==
  /\ \E g \in Geometries, currentTick \in {NULL} \cup {Some(t) : t \in TickSamples} :
       LET currentStatus == deriveRangeStatus(g[1], g[2], currentTick)
       IN tiering' = [rangeStatus |-> currentStatus, tickLower |-> Some(g[1]),
                      tickUpper |-> Some(g[2]), currentTick |-> currentTick,
                      derived |-> TRUE, called |-> TRUE,
                      out |-> classifyLpRangeTier(currentStatus, g[1], g[2], currentTick)]
  /\ UNCHANGED besidesTiering

\* classifyLpRangeTier called on arbitrary arguments
ClassifyTicks ==
  /\ \E rangeStatus \in RangeStatuses,
        g \in {<<Some(x[1]), Some(x[2])>> : x \in Geometries \cup BadGeometries}
              \cup {<<NULL, Some(200)>>, <<Some(100), NULL>>},
        currentTick \in {NULL} \cup {Some(t) : t \in TickSamples} :
       tiering' = [rangeStatus |-> rangeStatus, tickLower |-> g[1], tickUpper |-> g[2],
                   currentTick |-> currentTick, derived |-> FALSE, called |-> TRUE,
                   out |-> classifyLpRangeTierOf(rangeStatus, g[1], g[2], currentTick)]
  /\ UNCHANGED besidesTiering

-----------------------------------------------------------------------------
(* my-wallets UI lock (the my-wallets interaction handler) *)

MW_LOCK_TTL_MS == 2500
MwTickMs == 1250          \* the clock is read in steps of half the TTL

Actors == {"a", "b"}
Interactions == 1..3

\* mwLocks: actorId -> NULL or <<[until, seq]>>; handlers: per interaction,
\* where its handler is, for which actor, with which seq, the until of the
\* entry it stored, and whether it reached the database
NoHandler == [pc |-> "none", actor |-> "a", seq |-> 0, until |-> 0, db |-> FALSE]
NoMw == [locks |-> [a \in Actors |-> NULL], clock |-> 0,
         handlers |-> [i \in Interactions |-> NoHandler]]

nowMs == mw.clock

\* acquireLock(actorId): the seq taken and the new map, seq 0 when locked
mwAcquireLock(locks, actorId, t) ==
  LET entry == locks[actorId]
  IN IF entry # NULL /\ Val(entry).until > t THEN [seq |-> 0, until |-> 0, locks |-> locks]
     ELSE LET next == [until |-> t + MW_LOCK_TTL_MS,
                       seq |-> (IF entry = NULL THEN 0 ELSE Val(entry).seq) + 1]
          IN [seq |-> next.seq, until |-> next.until,
              locks |-> [locks EXCEPT ![actorId] = Some(next)]]

\* releaseLock(actorId, seq)
mwReleaseLock(locks, actorId, seq) ==
  LET entry == locks[actorId]
  IN IF entry = NULL THEN locks
     ELSE IF Val(entry).seq # seq THEN locks
     ELSE [locks EXCEPT ![actorId] = NULL]

\* handleMyWalletsInteraction up to its first await: a locked actor's
\* interaction is acknowledged and ignored, otherwise the handler reads the
\* user record and goes on
MwInteraction(i) ==
  /\ mw.handlers[i].pc = "none"
  /\ \E actorId \in Actors :
       LET got == mwAcquireLock(mw.locks, actorId, nowMs)
       IN mw' = IF got.seq = 0
                THEN [mw EXCEPT !.handlers[i] = [pc |-> "ignored", actor |-> actorId,
                                                 seq |-> 0, until |-> 0, db |-> FALSE]]
                ELSE [mw EXCEPT !.locks = got.locks,
                                !.handlers[i] = [pc |-> "running", actor |-> actorId,
                                                 seq |-> got.seq, until |-> got.until,
                                                 db |-> TRUE]]
  /\ UNCHANGED besidesMw

\* the handler's last await settles: finally releaseLock(actorId, seq)
MwHandlerEnds(i) ==
  /\ mw.handlers[i].pc = "running"
  /\ mw' = [mw EXCEPT !.locks = mwReleaseLock(mw.locks, mw.handlers[i].actor,
                                              mw.handlers[i].seq),
                      !.handlers[i].pc = "handled"]
  /\ UNCHANGED besidesMw

MwClockTick ==
  /\ mw.clock < MaxMwTicks * MwTickMs
  /\ mw' = [mw EXCEPT !.clock = @ + MwTickMs]
  /\ UNCHANGED besidesMw

-----------------------------------------------------------------------------
(* Windowed log scans (the VaultCreated discovery script, dev/testSteerPeriphery.js) *)

\* main of the discovery script, and scanVaultCreatedFromPeriphery
WinScanImpls == {"main", "periphery"}
ChunkSizes == {2, 3}

\* from: the window the loop is at; fetched: the windows whose getLogs call
\* was made, in call order; processed: the windows whose logs were handled;
\* failed: the windows whose withRetry(getLogs) threw
NoWinScan == [pc |-> "none", impl |-> "main", from |-> 0, scanEnd |-> 0, chunk |-> 2,
              fetched |-> <<>>, processed |-> <<>>, failed |-> {}, outcome |-> "none"]

\* the for header's test: call getLogs for the window at from, or leave the loop
winScanLoop(ws) ==
  IF ws.from <= ws.scanEnd
  THEN [ws EXCEPT !.pc = "fetch", !.fetched = Append(@, ws.from)]
  ELSE [ws EXCEPT !.pc = "done", !.outcome = "returned"]

\* withRetry(getLogs) threw: main has no try around it, the periphery scan
\* catches and continues with the next window
winScanCatch(ws) ==
  IF ws.impl = "main"
  THEN [ws EXCEPT !.pc = "done", !.outcome = "threw", !.failed = @ \cup {ws.from}]
  ELSE winScanLoop([ws EXCEPT !.failed = @ \cup {ws.from}, !.from = @ + ws.chunk])

\* the scan is called: its range and chunk size are fixed and the first
\* window's logs are asked for
WinScanStart ==
  /\ winScan.pc \in {"none", "done"}
  /\ \E impl \in WinScanImpls, scanStart \in 0..1, scanEnd \in 0..MaxScanEnd,
        chunk \in ChunkSizes :
       /\ impl = "periphery" => scanStart <= scanEnd
       /\ winScan' = winScanLoop([NoWinScan EXCEPT !.impl = impl, !.from = scanStart,
                                                   !.scanEnd = scanEnd, !.chunk = chunk])
  /\ UNCHANGED besidesWinScan

\* await withRetry(() => provider.getLogs(...)) settles: the logs are
\* handled (main stops at the first matching log) or the error is dealt with
WinFetchSettles ==
  /\ winScan.pc = "fetch"
  /\ \/ \E match \in BOOLEAN :
          LET ws == [winScan EXCEPT !.processed = Append(@, winScan.from)]
          IN winScan' = IF match /\ ws.impl = "main"
                        THEN [ws EXCEPT !.pc = "done", !.outcome = "found"]
                        ELSE winScanLoop([ws EXCEPT !.from = @ + ws.chunk])
     \/ winScan' = winScanCatch(winScan)
  /\ UNCHANGED besidesWinScan

-----------------------------------------------------------------------------
(* A monitorLPs cycle over several positions (lpMonitor.js) *)

\* getMonitoredLpRows(): the enabled LP positions, two on FLR and one on XDC
CycleRows ==
  <<[userId |-> 2, walletId |-> 2, contractId |-> 2, tokenId |-> "7", chainId |-> "FLR"],
    [userId |-> 2, walletId |-> 2, contractId |-> 3, tokenId |-> "9", chainId |-> "XDC"],
    [userId |-> 2, walletId |-> 2, contractId |-> 2, tokenId |-> "8", chainId |-> "FLR"]>>

\* the chains of CHAINS_CONFIG
CycleChains == {"FLR", "XDC"}

CycleKey(row) == <<row.userId, row.walletId, row.contractId, row.tokenId>>

\* byChain: the rows grouped by chain, chains in order of first appearance
RECURSIVE byChain(_)
byChain(rows) ==
  IF rows = <<>> THEN <<>>
  ELSE LET c == rows[1].chainId
       IN SelectSeq(rows, LAMBDA r : r.chainId = c)
          \o byChain(SelectSeq(rows, LAMBDA r : r.chainId # c))

\* the rows the two loops reach: a chain whose getProviderForChain throws
\* (no RPC URL in the environment) is skipped with a warning
cycleQueue(rows, rpc) == SelectSeq(byChain(rows), LAMBDA r : r.chainId \in rpc)

\* queue: rows still to describe; rpc: chains with an RPC URL; evaluated:
\* rows describeLpPosition was called for; last: the row described last and
\* what failed in it ("positions": pm.positions threw, caught in monitorLPs;
\* "pool": the pool read threw, caught in describeLpPosition)
NoLpCycle == [pc |-> "none", queue |-> <<>>, rpc |-> {}, evaluated |-> {},
              last |-> [k |-> BadLoanKey, failure |-> "none"]]

\* monitorLPs is called
LpCycleStart ==
  /\ lpCycle.pc \in {"none", "done"}
  /\ pc = "idle"
  /\ \E rpc \in SUBSET CycleChains :
       lpCycle' = [NoLpCycle EXCEPT !.pc = "running", !.rpc = rpc,
                                   !.queue = cycleQueue(CycleRows, rpc)]
  /\ UNCHANGED <<alert_state, alert_log, pc, cur, alertDms, besidesLpCycle>>

\* the try around describeLpPosition: whatever happened, on to the next row
cycleAfter(lc, row, failure) ==
  [lc EXCEPT !.queue = Tail(@),
             !.evaluated = @ \cup {CycleKey(row)},
             !.last = [k |-> CycleKey(row), failure |-> failure]]

\* what the chain reads of a row return in a cycle: pm.positions() throws,
\* the pool read gives nothing, the position is in range, or deep out of range
CycleReads == {r \in LpReads : r.positions = "throw"
                              \/ (r.positions = "ok" /\ r.currentTick \in {NULL, Some(150), Some(300)})}

\* one iteration of the inner loop: describeLpPosition for the next row, up
\* to the await of the DM it may send
LpCycleStep ==
  /\ lpCycle.pc = "running"
  /\ lpCycle.queue # <<>>
  /\ pc = "idle"
  /\ LET row == Head(lpCycle.queue)
     IN \E read \in CycleReads, poolThrew \in BOOLEAN :
          /\ poolThrew => (read.positions = "ok" /\ read.currentTick = NULL)
          /\ describeLpPosition(row, read)
          /\ lpCycle' = cycleAfter(lpCycle, row,
                                   IF read.positions = "throw" THEN "positions"
                                   ELSE IF poolThrew THEN "pool" ELSE "none")
  /\ UNCHANGED besidesLpCycle

\* the loops are through and monitorLPs returns
LpCycleEnd ==
  /\ lpCycle.pc = "running"
  /\ lpCycle.queue = <<>>
  /\ pc = "idle"
  /\ lpCycle' = [lpCycle EXCEPT !.pc = "done"]
  /\ UNCHANGED <<alert_state, alert_log, pc, cur, alertDms, besidesLpCycle>>


-----------------------------------------------------------------------------
(* Environment *)

\* setAlertEngineClient(client), called once when the bot is ready
setAlertEngineClient(c) == Some(c)

\* the user opts back in through the DM onboarding flow
ensureDmOnboarding ==
  /\ \E u \in Users : accepts_dm[u] = 0 /\ accepts_dm' = [accepts_dm EXCEPT ![u] = 1]
  /\ UNCHANGED <<sideVars, env, alert_state, alert_log, client, now, pc, cur, alertDms, hb, lockMarker>>

Tick ==
  /\ now < MaxTime
  /\ now' = now + 1
  /\ UNCHANGED <<sideVars, env, alert_state, alert_log, accepts_dm, client, pc, cur, alertDms,
                 hb, lockMarker>>

-----------------------------------------------------------------------------
(* Specification *)

DefaultEnv == [LP_ALERT_MIN_TIER |-> "HIGH",
               LP_EDGE_WARN_FRAC |-> Some(200), LP_EDGE_HIGH_FRAC |-> Some(100),
               LP_OUT_WARN_FRAC |-> Some(100), LP_OUT_HIGH_FRAC |-> Some(500)]

Init ==
  /\ env = DefaultEnv
  /\ alert_state = {}
  /\ alert_log = <<>>
  /\ accepts_dm = [u \in Users |-> 1]
  /\ client = setAlertEngineClient("client")
  /\ now = 0
  /\ pc = "idle"
  /\ cur = NoCall
  /\ alertDms = <<>>
  /\ hb = NoRun
  /\ lockMarker = NULL
  /\ LockInit
  /\ job = NoJob
  /\ contract_scan_cursors = [c \in ContractIds |-> NULL]
  /\ search = NoSearch
  /\ retry = NoRetry
  /\ lpConfig = LoadedConfig
  /\ mw = NoMw
  /\ tiering = NoTiering
  /\ winScan = NoWinScan
  /\ lpCycle = NoLpCycle

Next ==
  \/ MonitorLp
  \/ LiquidationAlert
  \/ FetchSettles
  \/ SendSettles
  \/ ensureDmOnboarding
  \/ Tick

Spec == Init /\ [][Next]_vars

\* the daily heartbeat running beside the LP monitor
NextDm ==
  \/ MonitorLp
  \/ FetchSettles
  \/ SendSettles
  \/ ensureDmOnboarding
  \/ HbStart
  \/ HbSummaries
  \/ HbRefreshLoans
  \/ HbRefreshLps
  \/ HbRefetch
  \/ HbFetchSettles
  \/ HbSendSettles
  \/ OtherProcessLock

SpecDm == Init /\ [][NextDm]_vars

\* the daily heartbeat on its own
NextHb ==
  \/ HbStart
  \/ HbSummaries
  \/ HbRefreshLoans
  \/ HbRefreshLps
  \/ HbRefetch
  \/ HbFetchSettles
  \/ HbSendSettles
  \/ OtherProcessLock
  \/ ensureDmOnboarding

SpecHb == Init /\ [][NextHb]_vars

\* the monitoring job's scheduler
NextJob ==
  \/ JobStartup
  \/ JobCronTick
  \/ JobTimerFires
  \/ JobLoansSettle
  \/ JobLpsSettle

SpecJob == Init /\ [][NextJob]_vars

\* creation-block discovery over every chain head and creation block
NextSearch ==
  \/ SearchStart
  \/ SearchProbe
  \/ SearchReturns

SpecSearch == Init /\ [][NextSearch]_vars

\* withRetry around a call that may be throttled
NextRetry ==
  \/ RetryStart
  \/ RetryCall
  \/ RetrySleep

SpecRetry == Init /\ [][NextRetry]_vars

\* process starts under every environment
NextConfig ==
  \/ ProcessStarts
  \/ LoadLpMonitor
  \/ ClassifyLp

SpecConfig == Init /\ [][NextConfig]_vars

\* LP monitoring cycles under every accepted LP_ALERT_MIN_TIER
NextLpTier ==
  \/ RestartWithMinTier
  \/ MonitorLp
  \/ FetchSettles
  \/ SendSettles

SpecLpTier == Init /\ [][NextLpTier]_vars

\* the classifier over tick geometries
NextTiering ==
  \/ DescribeTicks
  \/ ClassifyTicks

SpecTiering == Init /\ [][NextTiering]_vars

\* windowed log scans over small block ranges
NextWinScan ==
  \/ WinScanStart
  \/ WinFetchSettles

SpecWinScan == Init /\ [][NextWinScan]_vars

\* monitorLPs cycles over three positions on two chains
NextLpCycle ==
  \/ LpCycleStart
  \/ LpCycleStep
  \/ LpCycleEnd
  \/ FetchSettles
  \/ SendSettles

SpecLpCycle == Init /\ [][NextLpCycle]_vars

\* the loan monitor raising both kinds of alert for one loan position
NextLoan ==
  \/ LiquidationAlert
  \/ RedemptionAlert
  \/ FetchSettles
  \/ SendSettles

SpecLoan == Init /\ [][NextLoan]_vars

\* my-wallets interactions arriving over time
NextMw ==
  \/ \E i \in Interactions : MwInteraction(i)
  \/ \E i \in Interactions : MwHandlerEnds(i)
  \/ MwClockTick

SpecMw == Init /\ [][NextMw]_vars

\* the indexer's cursor table
NextScan ==
  \/ EnsureContractScanCursor
  \/ AdvanceCursor

SpecScan == Init /\ [][NextScan]_vars

\* processes contending for the snapshot-refresh lock
NextLock ==
  \/ \E p \in Procs : LockStat(p)
  \/ \E p \in Procs : LockUnlink(p)
  \/ \E p \in Procs : LockCreate(p)
  \/ \E p \in Procs : LockRelease(p)
  \/ \E p \in Procs : ProcessDies(p)
  \/ MarkerAges

SpecLock == Init /\ [][NextLock]_vars

-----------------------------------------------------------------------------
(* Vocabulary of the properties *)

\* the most recent processAlert call has returned to its caller
Completed == pc = "idle" /\ cur.result = "returned"

RowsOf(k) == {r \in alert_state : RowKey(r) = k}

\* the identity's persisted state is exactly (active, signature)
Persisted(k, active, signature) ==
  /\ RowsOf(k) # {}
  /\ \A r \in RowsOf(k) : r.is_active = active /\ r.signature = signature

\* the call appended exactly one alert_log row, of this phase and signature
AppendedOne(phase, signature) ==
  /\ Len(alert_log) = cur.log0 + 1
  /\ LET e == alert_log[Len(alert_log)]
     IN /\ <<e.user_id, e.wallet_id, e.contract_id, e.token_id>> = cur.k
        /\ e.phase = phase
        /\ e.signature = signature

AppendedNone == Len(alert_log) = cur.log0

\* notifications the call attempted
DmsOfCall == Len(alertDms) - cur.dm0

\* the transition the lifecycle prescribes for the call's inputs
WasInactive == ~cur.prevActive
IsNew == cur.isActive /\ WasInactive
IsUpdated == cur.isActive /\ cur.prevActive /\ cur.prevSignature # cur.signature
IsSame == cur.isActive /\ cur.prevActive /\ cur.prevSignature = cur.signature
IsResolved == ~cur.isActive /\ cur.prevActive
IsQuiet == ~cur.isActive /\ WasInactive

-----------------------------------------------------------------------------
(* C1 *)

-----------------------------------------------------------------------------
(* C2 *)

\* C2: a call with isActive=true on Active(S) with the same computed signature
\* appends no event and attempts no notification; is_active and signature
\* stay as they were and last_seen_at and state_json are refreshed.
C2_SameSignatureNoOp ==
  (Completed /\ IsSame) =>
    /\ AppendedNone
    /\ DmsOfCall = 0
    /\ Persisted(cur.k, 1, cur.prevSignature)
    /\ \A r \in RowsOf(cur.k) : r.last_seen_at = cur.t0 /\ r.state_json = cur.stateJson

\* the no-op path ran at a later second and with a different state object
\* than the one stored before
C2_Witness ==
  /\ Completed /\ IsSame /\ cur.t0 > 0 /\ Len(alert_log) > 0
  /\ cur.stateJson = Some([json |-> [kind |-> "LOAN", tier |-> "HIGH",
                                     liquidationBufferFrac |-> Some(1249)]])

-----------------------------------------------------------------------------
(* C3 *)

-----------------------------------------------------------------------------
(* C4 *)

\* the LP position was last evaluated as IN_RANGE
LpInRange == cur.k = LpKey /\ cur.stateJson # NULL
             /\ Val(cur.stateJson).json.rangeStatus = "IN_RANGE"

\* C4: a call with isActive=false on an Active identity persists Inactive,
\* appends exactly one RESOLVED event and attempts no notification; an LP
\* position found IN_RANGE while its alert is Active takes this path.
C4_ResolvedSilently ==
  /\ (Completed /\ IsResolved) =>
       /\ Persisted(cur.k, 0, NULL)
       /\ AppendedOne("RESOLVED", NULL)
       /\ DmsOfCall = 0
  /\ (Completed /\ LpInRange /\ cur.prevActive) => IsResolved

C4_Witness == Completed /\ LpInRange /\ cur.prevActive /\ cur.phase = "RESOLVED"

-----------------------------------------------------------------------------
(* C5 *)

LogKey(e) == <<e.user_id, e.wallet_id, e.contract_id, e.token_id>>

\* a RESOLVED row of identity k lies strictly between log rows i and j
ResolvedBetween(k, i, j) ==
  \E n \in (i + 1)..(j - 1) : LogKey(alert_log[n]) = k /\ alert_log[n].phase = "RESOLVED"

PrevLogRow(k, i) ==
  IF \E n \in 1..(i - 1) : LogKey(alert_log[n]) = k
  THEN CHOOSE n \in 1..(i - 1) :
         /\ LogKey(alert_log[n]) = k
         /\ \A m \in (n + 1)..(i - 1) : LogKey(alert_log[m]) # k
  ELSE 0

-----------------------------------------------------------------------------
(* C6 *)

\* C6: alert_state holds at most one row per identity tuple, and a row with
\* is_active = 0 has signature NULL.
C6_OneRowPerIdentity ==
  /\ \A r1, r2 \in alert_state : RowKey(r1) = RowKey(r2) => r1 = r2
  /\ \A r \in alert_state : r.is_active = 0 => r.signature = NULL

\* both identities have a row, one of them resolved after having been active
C6_Witness ==
  /\ \A k \in Keys : RowsOf(k) # {}
  /\ \E r \in alert_state : r.is_active = 0
  /\ \E r \in alert_state : r.is_active = 1
  /\ \E n \in 1..Len(alert_log) : alert_log[n].phase = "RESOLVED"

-----------------------------------------------------------------------------
(* C7 *)

IsPrefix(s, t) == Len(s) <= Len(t) /\ SubSeq(t, 1, Len(s)) = s

\* the event is in the log from the moment the state is persisted, whatever
\* the notification does afterwards
C7_EventWritten ==
  cur.result \in {"running", "returned"} =>
    /\ IsNew => AppendedOne("NEW", cur.signature)
    /\ IsUpdated => AppendedOne("UPDATED", cur.signature)
    /\ IsResolved => AppendedOne("RESOLVED", NULL)
    /\ (IsSame \/ IsQuiet) => AppendedNone

\* C7: every NEW, UPDATED and RESOLVED transition appends exactly one
\* alert_log row, present before and whatever the outcome of the notification;
\* the same-signature and Inactive-to-Inactive paths append none; existing
\* rows are never changed or removed.
C7_AuditLog == [](C7_EventWritten) /\ [][IsPrefix(alert_log, alert_log')]_vars

\* a NEW or UPDATED event is in the log and its DM failed
C7_Witness ==
  /\ Completed /\ (IsNew \/ IsUpdated)
  /\ cur.delivery \in {"fetch_failed", "send_failed"}
  /\ Len(alert_log) >= 2

-----------------------------------------------------------------------------
(* C8 *)

DeliveryFailed == cur.delivery \in {"fetch_failed", "send_failed"}

\* C8: however the user fetch or the DM send ends, the call returns without
\* throwing and the row holds the isActive and signature of the transition.
C8_StateIgnoresDelivery ==
  /\ (pc = "idle" /\ cur.delivery # "none") =>
       /\ cur.result = "returned"
       /\ Persisted(cur.k, 1, cur.signature)
  /\ cur.result = "threw" => cur.delivery = "none"

\* the DM send failed, with a verdict that disabled the user's DMs
C8_Witness == pc = "idle" /\ cur.delivery = "send_failed" /\ cur.disabled

-----------------------------------------------------------------------------
(* C9 *)

\* this step calls client.users.fetch for an alert DM to user u
AlertDmStarts(u) ==
  /\ Len(alertDms') = Len(alertDms) + 1
  /\ alertDms'[Len(alertDms')].userId = u

\* this step calls client.users.fetch for the daily heartbeat of user u
HbDmStarts(u) ==
  /\ hb'.pc = "fetch"
  /\ hb'.queue # <<>>
  /\ Head(hb'.queue) = u
  /\ hb.pc # "fetch" \/ hb.queue # hb'.queue

\* this step is an alert DM delivery failing
AlertDmFails ==
  /\ pc \in {"fetch", "send"}
  /\ pc' = "idle"
  /\ cur'.delivery \in {"fetch_failed", "send_failed"}

\* this step is a heartbeat delivery failing with an error of this class
HbDmFails(class) ==
  /\ hb.pc \in {"fetch", "send"}
  /\ hb' # hb
  /\ hb'.lastFail = class

C9_Step ==
  /\ \A u \in Users : (AlertDmStarts(u) \/ HbDmStarts(u)) => accepts_dm[u] = 1
  /\ (AlertDmFails /\ cur'.disabled) => accepts_dm'[cur.k[1]] = 0
  /\ (AlertDmFails /\ ~cur'.disabled) => accepts_dm' = accepts_dm
  /\ HbDmFails("blocked") => accepts_dm'[Head(hb.queue)] = 0
  /\ HbDmFails("transient") => accepts_dm' = accepts_dm

\* C9 as stated: a delivery failure classified as blocked sets accepts_dm to
\* 0, no alert DM and no heartbeat is attempted for a user whose accepts_dm
\* is 0, and a transient failure leaves accepts_dm unchanged.
C9_AsStated == [][C9_Step]_vars

-----------------------------------------------------------------------------
(* C10 *)

\* the latest notification for identity k before the call failed with a
\* transient error and was for this signature
LastDmFailedTransiently(k, signature, upTo) ==
  \E i \in 1..upTo :
    /\ alertDms[i].k = k
    /\ alertDms[i].signature = signature
    /\ alertDms[i].transient
    /\ \A j \in (i + 1)..upTo : alertDms[j].k # k

\* C10 as stated: when the notification of a NEW or UPDATED transition failed
\* transiently and the next evaluation finds the same risk state, a
\* notification for that state is attempted again.
C10_AsStated ==
  (Completed /\ IsSame /\ LastDmFailedTransiently(cur.k, cur.signature, cur.dm0))
    => DmsOfCall >= 1

-----------------------------------------------------------------------------
(* C11 *)

LockHolders == {p \in Procs : lockProcs[p].pc = "holding"}

\* C11 as stated: for every interleaving of the stat, unlink and exclusive
\* create steps of acquireLock and the unlink of releaseLock, at most one
\* process at a time has acquired the lock and not yet released it.
C11_AsStated == Cardinality(LockHolders) <= 1

-----------------------------------------------------------------------------
(* C12 *)

\* a call of acquireLock has returned and no other process changed the
\* marker file while it ran
ReturnedAlone(p) ==
  /\ lockProcs[p].result # "none"
  /\ lockProcs[p].pc \in {"idle", "holding"}
  /\ lockProcs[p].alone

\* C12 as stated: acquireLock succeeds if no marker exists, or the marker's
\* owner is no longer alive, or the marker is older than the staleness age;
\* it returns null when the owner is alive and the marker is younger.
C12_AsStated ==
  \A p \in Procs :
    ReturnedAlone(p) =>
      (lockProcs[p].result = "acquired") = (lockProcs[p].seen # "young")

-----------------------------------------------------------------------------
(* C13 *)

HbRefreshing == hb.pc \in {"refreshLoans", "refreshLps", "refetch"}

-----------------------------------------------------------------------------
(* C14 *)

\* a step of the staleness handling in which the lock was busy or a refresh
\* step threw
HbFellBack ==
  \/ hb.pc = "summaries" /\ hb'.refresh = "busy"
  \/ HbRefreshing /\ hb'.threw # hb.threw

\* the delivery loop handles the recipient at the head of the queue and goes
\* on to the next one; it ends only after the last one
HbDeliversInTurn ==
  \/ hb' = hb
  \/ hb.pc = "fetch" /\ hb'.pc = "send" /\ hb'.queue = hb.queue
  \/ /\ hb'.queue = Tail(hb.queue)
     /\ hb'.pc = IF Tail(hb.queue) = <<>> THEN "idle" ELSE "fetch"

C14_Step ==
  /\ HbFellBack =>
       /\ hb'.queue = hb.queue
       /\ hb'.pc = CASE hb.pc = "summaries" -> "fetch"
                      [] hb.pc = "refreshLoans" -> "refreshLps"
                      [] hb.pc = "refreshLps" -> "refetch"
                      [] hb.pc = "refetch" -> "fetch"
  /\ hb.pc \in {"fetch", "send"} => HbDeliversInTurn

-----------------------------------------------------------------------------
(* C15 *)

\* C15: at most one monitoring cycle is in flight, whatever the order of the
\* startup run and the jittered cron triggers; a runOnce call either starts
\* its cycle at once or is skipped, so a skipped trigger starts no cycle
\* later: the cycles started are exactly the calls that were not skipped,
\* and nothing is left behind by a skipped call but its count.
C15_SingleCycle ==
  /\ job.inFlight <= 1
  /\ job.inFlight = (IF job.isRunning THEN 1 ELSE 0)
  /\ job.started + job.skipped = job.calls
  /\ (job.step # "idle") = job.isRunning

\* a trigger has fired while a cycle was running and was skipped, and the
\* cycle has since ended
C15_Witness ==
  /\ job.skipped >= 1
  /\ job.started >= 2
  /\ ~job.isRunning

-----------------------------------------------------------------------------
(* C16 *)

CursorAtOrPastStart ==
  \A c \in ContractIds :
    contract_scan_cursors[c] # NULL =>
      Val(contract_scan_cursors[c]).last_scanned_block
        >= Val(contract_scan_cursors[c]).start_block

CursorNeverRewinds ==
  \A c \in ContractIds :
    contract_scan_cursors[c] # NULL =>
      /\ contract_scan_cursors'[c] # NULL
      /\ Val(contract_scan_cursors'[c]).last_scanned_block
           >= Val(contract_scan_cursors[c]).last_scanned_block

\* C16 as stated: every cursor row has last_scanned_block >= start_block in
\* every reachable state, the one right after ensureContractScanCursor
\* creates the row included, and last_scanned_block never decreases.
C16_AsStated == [](CursorAtOrPastStart) /\ [][CursorNeverRewinds]_vars

-----------------------------------------------------------------------------
(* C17 *)

\* the search has returned what the claim says it returns
SearchResultRight ==
  search.pc = "done" =>
    search.result = (IF search.deployedAt <= search.latest
                     THEN Some(search.deployedAt) ELSE NULL)

\* the creation block stays inside [lo, hi] and every probe narrows the
\* interval, so the loop ends within latest probes
SearchNarrows ==
  search.pc = "loop" =>
    /\ search.lo <= search.deployedAt /\ search.deployedAt <= search.hi
    /\ search'.pc = "loop" =>
         /\ search'.hi - search'.lo < search.hi - search.lo
         /\ search'.lo <= search'.hi

\* C17: for a provider that reports no code below block B and code from B
\* on, findContractCreationBlock returns exactly B, for every B in 0..latest;
\* it returns null when there is no code at the latest block; the loop
\* terminates, each iteration shrinking hi - lo.
C17_FindsCreationBlock == [](SearchResultRight) /\ [][SearchNarrows]_vars

\* a search that needed probes has returned a creation block strictly
\* inside the chain
C17_Witness ==
  /\ search.pc = "done"
  /\ search.latest = MaxLatest
  /\ search.result = Some(5)
  /\ search.deployedAt = 5

-----------------------------------------------------------------------------
(* C18 *)

\* what a finished withRetry call has done
RetryOutcomeRight ==
  /\ retry.calls <= retry.maxAttempts
  /\ retry.pc = "done" =>
       /\ retry.outcome = "returned" =>
            /\ retry.failures < retry.maxAttempts
            /\ retry.calls = retry.failures + 1
       /\ (retry.outcome = "threw" /\ retry.failures = retry.calls) =>
            /\ retry.calls = retry.maxAttempts
            /\ retry.thrown = retry.lastErr

\* every call of fn uses up one attempt, fn's success returns at once, and a
\* rate-limit error with attempts left is followed by another call
RetrySteps ==
  /\ retry.pc = "call" =>
       /\ retry'.attempt = retry.attempt + 1
       /\ retry'.pc \in {"done", "sleep"}
       /\ retry'.pc = "sleep" <=>
            (isRateLimitError(retry'.lastErr) /\ retry'.failures > retry.failures
             /\ retry'.attempt < retry.maxAttempts)
  /\ retry.pc = "sleep" => (retry'.pc = "call" /\ retry'.attempt = retry.attempt)

\* C18: after N rate-limit errors and then a success, N below maxAttempts,
\* withRetry returns after exactly N + 1 calls of fn; when fn keeps throwing
\* rate-limit errors it is called exactly maxAttempts times and the last
\* error is rethrown; the attempts left shrink with every call, so the loop
\* terminates.
C18_BoundedRetry == [](RetryOutcomeRight) /\ [][RetrySteps]_vars

\* withRetry, with the default maxAttempts, has returned after five
\* rate-limit errors
C18_Witness ==
  /\ retry.pc = "done"
  /\ retry.outcome = "returned"
  /\ retry.maxAttempts = DEFAULT_MAX_ATTEMPTS
  /\ retry.failures = DEFAULT_MAX_ATTEMPTS - 1
  /\ retry.calls = DEFAULT_MAX_ATTEMPTS

-----------------------------------------------------------------------------
(* C19 *)

\* the raw value is present and is a number
RawNumeric(raw) == raw # NULL /\ Val(raw) \in {"0.1", "0.2", "0.5"}

ConfigComplete(raw) ==
  /\ raw.LP_ALERT_MIN_TIER = Some("high")
  /\ RawNumeric(raw.LP_EDGE_WARN_FRAC)
  /\ RawNumeric(raw.LP_EDGE_HIGH_FRAC)
  /\ RawNumeric(raw.LP_OUT_WARN_FRAC)
  /\ RawNumeric(raw.LP_OUT_HIGH_FRAC)

\* C19 as stated: when a cutoff or LP_ALERT_MIN_TIER is missing, not a number
\* or invalid, loading the LP monitor fails, and no classification runs with
\* a defaulted or NaN cutoff.
C19_AsStated ==
  /\ lpConfig.status = "loaded" => ConfigComplete(lpConfig.raw)
  /\ lpConfig.classified # "none" =>
       /\ isFinite(env.LP_EDGE_WARN_FRAC) /\ isFinite(env.LP_EDGE_HIGH_FRAC)
       /\ isFinite(env.LP_OUT_WARN_FRAC) /\ isFinite(env.LP_OUT_HIGH_FRAC)

-----------------------------------------------------------------------------
(* C20 *)

MwInFlight(actorId) ==
  {i \in Interactions : mw.handlers[i].pc = "running" /\ mw.handlers[i].actor = actorId}

\* C20 as stated: for each user at most one my-wallets action is in flight:
\* while a handler that acquired the user's lock has not released it, every
\* other interaction of that user is ignored without reaching the database,
\* however long the handler takes.
C20_AsStated == \A actorId \in Actors : Cardinality(MwInFlight(actorId)) <= 1

-----------------------------------------------------------------------------
(* C21 *)

\* the LP monitor's latest call reported the position OUT_OF_RANGE, tier CRITICAL
LpOutCritical ==
  /\ cur.k = LpKey /\ cur.stateJson # NULL
  /\ Val(cur.stateJson).json.rangeStatus = "OUT_OF_RANGE"
  /\ Val(cur.stateJson).json.lpRangeTier = "CRITICAL"

\* C21 as stated: when a monitorLPs cycle classifies an Inactive LP position
\* as OUT_OF_RANGE with tier CRITICAL, the engine is called with
\* isActive=true, the state becomes Active and exactly one NEW event is
\* emitted, under every accepted LP_ALERT_MIN_TIER, the unset one included.
C21_AsStated ==
  (Completed /\ LpOutCritical /\ WasInactive) =>
    /\ cur.isActive
    /\ Persisted(cur.k, 1, cur.signature)
    /\ AppendedOne("NEW", cur.signature)

-----------------------------------------------------------------------------
(* C22 *)

\* the classified call came from the monitor, with finite ticks of a position
MonitorClassified ==
  /\ tiering.called /\ tiering.derived /\ isFinite(tiering.currentTick)
  /\ Val(tiering.tickLower) < Val(tiering.tickUpper)

\* num / den is below pm / 1000, the cutoff excluded (strict) or included
BelowCutoff(num, den, pm, strict) ==
  IF strict THEN num * 1000 < pm * den ELSE num * 1000 <= pm * den

\* the numerator, over the width, of the reference's centerDistance (in
\* range) or distanceFraction (out of range)
RefDistance(t) ==
  LET lo == Val(t.tickLower)
      hi == Val(t.tickUpper)
      c == Val(t.currentTick)
  IN IF lo <= c /\ c < hi THEN Min(c - lo, (hi - lo) - (c - lo))
     ELSE IF c < lo THEN lo - c ELSE c - hi

RefTier(t, strict) ==
  LET lo == Val(t.tickLower)
      hi == Val(t.tickUpper)
      c == Val(t.currentTick)
      d == RefDistance(t)
  IN IF lo <= c /\ c < hi
     THEN IF BelowCutoff(d, hi - lo, Val(env.LP_EDGE_HIGH_FRAC), strict) THEN "HIGH"
          ELSE IF BelowCutoff(d, hi - lo, Val(env.LP_EDGE_WARN_FRAC), strict) THEN "MEDIUM"
          ELSE "LOW"
     ELSE IF BelowCutoff(d, hi - lo, Val(env.LP_OUT_WARN_FRAC), strict) THEN "MEDIUM"
          ELSE IF BelowCutoff(d, hi - lo, Val(env.LP_OUT_HIGH_FRAC), strict) THEN "HIGH"
          ELSE "CRITICAL"

StatusFollowsTicks ==
  /\ tiering.rangeStatus \in {"IN_RANGE", "OUT_OF_RANGE"}
  /\ tiering.rangeStatus = "IN_RANGE" <=>
       (Val(tiering.tickLower) <= Val(tiering.currentTick)
        /\ Val(tiering.currentTick) < Val(tiering.tickUpper))

-----------------------------------------------------------------------------
(* C23 *)

\* the call's status is IN_RANGE or OUT_OF_RANGE and no distance can be
\* computed for it: a tick is not finite, the width is not positive, or the
\* status contradicts the ticks
Degenerate ==
  /\ tiering.called
  /\ normalizeStatus(tiering.rangeStatus) \in {"IN_RANGE", "OUT_OF_RANGE"}
  /\ \/ ~isFinite(tiering.tickLower) \/ ~isFinite(tiering.tickUpper)
     \/ ~isFinite(tiering.currentTick)
     \/ Val(tiering.tickUpper) - Val(tiering.tickLower) <= 0
     \/ normalizeStatus(tiering.rangeStatus)
          # deriveRangeStatus(Val(tiering.tickLower), Val(tiering.tickUpper),
                              tiering.currentTick)

\* C23 as stated: whenever the distance cannot be computed, for IN_RANGE and
\* for OUT_OF_RANGE inputs, the result tier is UNKNOWN with an explanatory
\* label, never a guessed tier.
C23_AsStated ==
  Degenerate => (tiering.out.tier = "UNKNOWN" /\ tiering.out.label # "")

-----------------------------------------------------------------------------
(* C24 *)

\* the call of fn made in this step threw an error that is not rate limiting
FnThrewFatal ==
  /\ retry.pc = "call"
  /\ retry'.outcome # "returned"
  /\ ~isRateLimitError(retry'.lastErr)

\* the throwing call is the last one: the error is rethrown as it is, with
\* no sleep and no further call
FatalPropagates ==
  FnThrewFatal =>
    /\ retry'.pc = "done"
    /\ retry'.outcome = "threw"
    /\ retry'.thrown = retry'.lastErr
    /\ retry'.calls = retry.calls + 1
    /\ retry'.slept = retry.slept

\* a call that ended on a fatal error with no rate-limit error before it
\* called fn once and never slept
FatalAtFirstCall ==
  (retry.pc = "done" /\ retry.outcome = "threw" /\ retry.failures = 0
   /\ retry.thrown # "exhausted retries")
    => (retry.calls = 1 /\ retry.slept = 0 /\ ~isRateLimitError(retry.thrown))

\* C24: when fn throws an error that isRateLimitError does not classify as
\* rate limiting, withRetry rethrows that same error after that one call,
\* without sleeping or calling fn again.
C24_FatalNotRetried == [](FatalAtFirstCall) /\ [][FatalPropagates]_vars

\* fn's first call threw "execution reverted" with five attempts left
C24_Witness ==
  /\ retry.pc = "done"
  /\ retry.outcome = "threw"
  /\ retry.thrown = "execution reverted"
  /\ retry.calls = 1
  /\ retry.slept = 0
  /\ retry.maxAttempts = DEFAULT_MAX_ATTEMPTS

-----------------------------------------------------------------------------
(* C25 *)

\* the getLogs calls of a scan go up in block order
WindowsIncrease ==
  \A i, j \in 1..Len(winScan.fetched) :
    i < j => winScan.fetched[i] < winScan.fetched[j]

\* after a window failed nothing beyond it is fetched or handled
NothingPastFailure ==
  \A f \in winScan.failed :
    /\ \A i \in 1..Len(winScan.fetched) : winScan.fetched[i] <= f
    /\ \A i \in 1..Len(winScan.processed) : winScan.processed[i] < f

\* a failed window ends the scan with the error
FailureEndsScan ==
  winScan.failed # {} => (winScan.pc = "done" /\ winScan.outcome = "threw")

\* C25 as stated: windows are scanned in strictly increasing block order, and
\* when the log fetch of a window fails after the bounded retries the scan
\* stops with the error: no later window is fetched or processed.
C25_AsStated == WindowsIncrease /\ NothingPastFailure /\ FailureEndsScan

-----------------------------------------------------------------------------
(* C26 *)

\* this step described a row and something failed in it
RowFailed ==
  /\ lpCycle.pc = "running"
  /\ Len(lpCycle'.queue) < Len(lpCycle.queue)
  /\ lpCycle'.last.failure # "none"

\* the failed position's alert_state row is as it was
FailedRowKept ==
  RowFailed =>
    {r \in alert_state' : RowKey(r) = lpCycle'.last.k} = RowsOf(lpCycle'.last.k)

\* a failure in a row does not end the cycle: the rows after it stay queued
FailureNotFatal ==
  RowFailed => lpCycle'.queue = Tail(lpCycle.queue)

\* a finished cycle has described exactly the rows of the chains that have
\* a provider
CycleCoversRows ==
  lpCycle.pc = "done" =>
    lpCycle.evaluated = {CycleKey(CycleRows[i]) : i \in
                           {j \in 1..Len(CycleRows) : CycleRows[j].chainId \in lpCycle.rpc}}

\* C26 as stated: a failure while reading or evaluating one position leaves
\* that position's alert_state row exactly as it was, every remaining
\* position of the cycle is still evaluated, and a chain without provider
\* configuration loses only its own positions.
C26_AsStated == [](CycleCoversRows) /\ [][FailedRowKept /\ FailureNotFatal]_vars

-----------------------------------------------------------------------------
(* C27 *)

\* the alert_log rows before row n of the same identity and alert type
EarlierOfType(n) ==
  {i \in 1..(n - 1) : /\ LogKey(alert_log[i]) = LogKey(alert_log[n])
                      /\ alert_log[i].alert_type = alert_log[n].alert_type}

\* row n continues the lifecycle of its own alert type: NEW opens it when
\* that type is not active, UPDATED and RESOLVED follow a NEW or UPDATED of
\* the same type
OwnLifecycle(n) ==
  LET before == EarlierOfType(n)
      active == /\ before # {}
                /\ alert_log[CHOOSE i \in before : \A j \in before : j <= i].phase
                     \in {"NEW", "UPDATED"}
  IN IF alert_log[n].phase = "NEW" THEN ~active ELSE active

\* C27 as stated: the liquidation and the redemption alert of one loan
\* position have independent lifecycles: a call of one handler never reads,
\* overwrites or resolves the state the other established, so every event
\* of an alert type follows from that type's own earlier events.
C27_AsStated == \A n \in 1..Len(alert_log) : OwnLifecycle(n)

-----------------------------------------------------------------------------
(* C28 *)

\* p's releaseLock runs in this step while the marker is another process's
ReleasesForeignMarker(p) ==
  /\ lockProcs[p].pc = "holding"
  /\ lockProcs'[p].pc = "idle"
  /\ lockFile # NULL
  /\ Val(lockFile).pid # p

\* C28 as stated: releaseLock only ever removes the marker its caller
\* created: under every interleaving a marker that another process has
\* since written (after reclaiming the caller's as stale) is left in place.
C28_AsStated ==
  [][\A p \in Procs : ReleasesForeignMarker(p) => lockFile' = lockFile]_vars

-----------------------------------------------------------------------------
(* C29 *)

\* handler i ends in this step while its user's lock is an entry a later
\* handler stored
ReleasesLaterLock(i) ==
  /\ mw.handlers[i].pc = "running"
  /\ mw'.handlers[i].pc = "handled"
  /\ mw.locks[mw.handlers[i].actor] # NULL
  /\ Val(mw.locks[mw.handlers[i].actor]).until # mw.handlers[i].until

\* C29 as stated: releaseLock(actorId, seq) called by a handler never
\* removes a lock held by a later handler of the same user: after any
\* sequence of acquires, TTL expiries and releases, a release with a sequence
\* number issued to an earlier holder leaves the current lock in place.
C29_AsStated ==
  [][\A i \in Interactions : ReleasesLaterLock(i) => mw'.locks = mw.locks]_vars

-----------------------------------------------------------------------------
(* C30 *)

\* the cycle in flight ends in this step, by return or by throw
CycleEnds == job.step # "idle" /\ job'.step = "idle"

\* a trigger calls runOnce in this step
TriggerFires == job'.calls = job.calls + 1

\* the end of a cycle resets isRunning, and a trigger that fires when no
\* cycle is in flight starts one
JobRestarts ==
  /\ CycleEnds => ~job'.isRunning
  /\ (TriggerFires /\ job.step = "idle") =>
       (job'.isRunning /\ job'.step = "monitorLoans" /\ job'.started = job.started + 1)

\* C30: whenever a cycle finishes, whether monitorLoans / monitorLPs return
\* or throw, isRunning is false again, so the next trigger that fires after
\* the cycle has ended always starts a new cycle.
C30_NeverStuckSkipping == [](job.step = "idle" => ~job.isRunning) /\ [][JobRestarts]_vars

\* a cycle ended by a throw and a later trigger has started the next cycle
C30_Witness ==
  /\ job.lastEnd = "threw"
  /\ job.started >= 2
  /\ job.isRunning

====
